---- MODULE Spec2Model ----
(***************************************************************************)
(* A model of the target heads of finetune (finetune/nn/target_blocks.py)  *)
(* and of the document input adaptation                                    *)
(* (finetune/target_models/document_labeling.py).                          *)
(*                                                                         *)
(* Numbers are fixed-point integers: FP units stand for 1.0.  A batch is a *)
(* sequence of rows; a row keeps the index it had in the input batch (id), *)
(* its number of non-padding tokens (len) and the log-likelihood, in whole *)
(* log2 units, that the CRF gives to the row's label path (ll): the path   *)
(* of its targets when the row is labeled, of its decoded labels when not. *)
(***************************************************************************)
EXTENDS Integers, Sequences, FiniteSets, TLC

VARIABLES global_step, call, result, ema

vars == <<global_step, call, result, ema>>

\* ------------------------------------------------------------------ bounds
\* fixed-point scale: FP units are 1.0
FP == 100
\* largest batch (labeled rows followed by unlabeled rows)
MaxBatch == 3
\* total_num_steps handed to the SSL engines
TotalSteps == 4

\* log-likelihoods a row can have: 0 (probability 1), -1 (1/2), and one so
\* low that its exponential underflows to 0.0
LLValues == {0, -1, -12}
LenValues == {2}
SslCoefValues == {0, FP}
UnsupValues == {0, FP \div 2}
NTargets == {3}
NClasses == CHOOSE n \in NTargets : TRUE

\* ------------------------------------------------------------- arithmetic
RECURSIVE Pow2(_)
Pow2(n) == IF n <= 0 THEN 1 ELSE 2 * Pow2(n - 1)

\* tf.exp of a log-likelihood ll <= 0, in fixed point: a result below one
\* unit is 0 (the float underflows)
Exp(ll) == FP \div Pow2(-ll)

Mul(a, b) == (a * b) \div FP

Max(a, b) == IF a >= b THEN a ELSE b

RECURSIVE SumSeq(_)
SumSeq(s) == IF s = <<>> THEN 0 ELSE Head(s) + SumSeq(Tail(s))

RECURSIVE SelectRows(_, _)
\* tf.boolean_mask: the rows whose mask entry is TRUE, in order
SelectRows(rows, mask) ==
    IF rows = <<>> THEN <<>>
    ELSE IF Head(mask) THEN <<Head(rows)>> \o SelectRows(Tail(rows), Tail(mask))
         ELSE SelectRows(Tail(rows), Tail(mask))

Lens(rows) == [i \in 1..Len(rows) |-> rows[i].len]

\* ------------------------------------------------------------ loss values
\* A loss is None, a scalar, a vector with one entry per row, or NaN.
NoneLoss == [kind |-> "None"]
Scalar(v) == [kind |-> "scalar", v |-> v]
Vector(s) == [kind |-> "vector", v |-> s]
NaNLoss == [kind |-> "nan"]

\* tf.reduce_mean: the mean of no element is NaN
reduce_mean(loss) ==
    IF loss.kind = "vector"
    THEN IF loss.v = <<>> THEN NaNLoss ELSE Scalar(SumSeq(loss.v) \div Len(loss.v))
    ELSE loss

\* scalar + scalar; NaN is absorbing
AddLoss(a, b) ==
    IF a.kind = "nan" \/ b.kind = "nan" THEN NaNLoss ELSE Scalar(a.v + b.v)

\* --------------------------------------------------- collaborators' values
NoTargets == -1

\* the rows of the batch that targets covers, and the rest
LabeledRows(c) == SubSeq(c.batch, 1, c.targets)
UnlabeledRows(c) == SubSeq(c.batch, c.targets + 1, Len(c.batch))

\* the TSA confidence threshold at a training progress (linear schedule):
\* from 1/n_targets at step 0 up to 1.0 at the last step
tsa_threshold(gs, n_targets) ==
    (FP \div n_targets) + (((gs * FP) \div TotalSteps) * (FP - FP \div n_targets)) \div FP

\* tsa_filter: the labeled rows whose confidence on their targets does not
\* exceed the threshold (the confidently-correct ones are removed)
tsa_filter(rows, gs, n_targets) ==
    SelectRows(rows, [i \in 1..Len(rows) |->
                        ~(Exp(rows[i].ll) > tsa_threshold(gs, n_targets))])

\* warmup_constant(x, warmup): x / warmup up to warmup, then 1
warmup_constant(x, warmup) == IF x <= warmup THEN (x * FP) \div warmup ELSE FP

\* crf_log_likelihood: one log-likelihood per row (a vector)
crf_log_likelihood(rows) == [i \in 1..Len(rows) |-> rows[i].ll * FP]

\* tf.compat.v1.losses.sparse_softmax_cross_entropy with the weights
\* sequence_mask(lengths) / lengths: a scalar, the weighted sum divided by
\* the number of non-zero weights, and 0 when there is none
weighted_cross_entropy(rows) ==
    LET total == SumSeq([i \in 1..Len(rows) |-> (-rows[i].ll) * FP])
        count == SumSeq(Lens(rows))
    IN  Scalar(IF count = 0 THEN 0 ELSE total \div count)

\* ---------------------------------------------------------------- results
\* class weights absent (None)
NoWeights == <<>>

\* the keys of the predict_params of the sequence heads
SequenceParams == {"transition_matrix", "sequence_length"}

\* The dict a head returns, with what the head computed on the way: err is
\* "none" or the exception that aborted the call (msg its message);
\* weights are the normalised per-example class weights, as numerators over
\* one denominator; supIn are the rows handed to the supervised loss, sup the
\* supervised term and unsupTerm the unsupervised one of the returned loss,
\* unsupIn the rows the unsupervised term is computed on; lossIn are the
\* tensors pseudo_label hands to its loss, each row by the index of the
\* example it belongs to;
\* predict_params are the keys of the bundle, sequence_length and
\* transition_matrix (its shape) their values;
\* out are the samples zip_list_to_dict returns.
Blank ==
    [err |-> "none", msg |-> "", logits |-> <<>>, logits_shape |-> <<>>,
     losses |-> NoneLoss, predict_params |-> {}, sequence_length |-> <<>>,
     transition_matrix |-> <<>>, weights |-> [num |-> <<>>, den |-> 1],
     sigmoid |-> FALSE, supIn |-> <<>>, tsaApplied |-> FALSE,
     sup |-> NoneLoss, unsupIn |-> <<>>, unsupTerm |-> 0, out |-> <<>>,
     lossIn |-> [logits |-> <<>>, lengths |-> <<>>, targets |-> <<>>]]

\* ------------------------------------------------------------ linear heads
\* (mutant) normalises by the number of classes instead of the batch size
class_weight_ByClasses(labels, class_weights) ==
    LET raw == [i \in 1..Len(labels) |-> class_weights[labels[i]]]
    IN  [num |-> [i \in 1..Len(labels) |-> raw[i] * Len(class_weights)],
         den |-> SumSeq(raw)]

\* _apply_class_weight, the weights: the weight of each example's true class,
\* times the number of examples over the sum of these weights
class_weight(labels, class_weights) ==
    LET raw == [i \in 1..Len(labels) |-> class_weights[labels[i]]]
    IN  [num |-> [i \in 1..Len(labels) |-> raw[i] * Len(labels)],
         den |-> SumSeq(raw)]

Matrix(m) == [kind |-> "matrix", v |-> m]

\* _apply_class_weight, the losses: losses of shape [batch] times weights of
\* shape [batch, 1] broadcast to [batch, batch], entry [i][j] being
\* weights[i] * losses[j]
_apply_class_weight(losses, labels, class_weights) ==
    IF class_weights = NoWeights THEN Vector(losses)
    ELSE LET w == class_weight(labels, class_weights)
         IN  Matrix([i \in 1..Len(labels) |->
                       [j \in 1..Len(losses) |-> (w.num[i] * losses[j]) \div w.den]])

\* the cross-entropy of each row against its label
cross_entropy(rows) == [i \in 1..Len(rows) |-> (-rows[i].ll) * FP]

classifier(c) ==
    IF c.targets = NoTargets
    THEN [Blank EXCEPT !.logits = c.batch]
    ELSE [Blank EXCEPT
            !.logits = c.batch,
            !.losses = _apply_class_weight(cross_entropy(c.batch), c.labels,
                                           c.class_weights),
            !.weights = IF c.class_weights = NoWeights THEN @
                        ELSE class_weight(c.labels, c.class_weights)]

\* one score per (example, choice); sparse cross-entropy over the choices
multi_choice_question(c) ==
    IF c.targets = NoTargets
    THEN [Blank EXCEPT !.logits = c.batch]
    ELSE [Blank EXCEPT !.logits = c.batch,
                       !.losses = Vector(cross_entropy(c.batch))]

\* sigmoid cross-entropy, one entry per (example, class)
multi_classifier(c) ==
    IF c.targets = NoTargets
    THEN [Blank EXCEPT !.logits = c.batch]
    ELSE [Blank EXCEPT
            !.logits = c.batch,
            !.losses = Matrix([i \in 1..Len(c.batch) |->
                                 [k \in 1..c.n_targets |-> (-c.batch[i].ll) * FP]])]

\* str.upper() on the regression-loss kinds
RegressionLossKinds == {"L1", "l1", "L2", "l2", "huber", ""}

\* (mutant) the kind is compared as written
upper_Missing(kind) == kind

upper(kind) ==
    CASE kind \in {"L1", "l1"} -> "L1"
      [] kind \in {"L2", "l2"} -> "L2"
      [] kind = "huber" -> "HUBER"
      [] OTHER -> kind

\* the residual outputs - targets of each row
Residuals(rows) == [i \in 1..Len(rows) |-> rows[i].ll * FP]

\* (mutant) the L1 loss is reduced to its mean
regressor_MeanL1(c) ==
    IF c.targets = NoTargets
    THEN [Blank EXCEPT !.logits = c.batch]
    ELSE IF upper(c.regression_loss) = "L2"
    THEN [Blank EXCEPT
            !.logits = c.batch,
            !.losses = Scalar(SumSeq([i \in 1..Len(c.batch) |->
                          Mul(Residuals(c.batch)[i], Residuals(c.batch)[i])])
                              \div 2)]
    ELSE IF upper(c.regression_loss) = "L1"
    THEN [Blank EXCEPT
            !.logits = c.batch,
            !.losses = reduce_mean(Vector([i \in 1..Len(c.batch) |->
                          Max(Residuals(c.batch)[i], -Residuals(c.batch)[i])]))]
    ELSE [Blank EXCEPT !.err = "FinetuneError", !.msg = c.regression_loss]

regressor(c) ==
    IF c.targets = NoTargets
    THEN [Blank EXCEPT !.logits = c.batch]
    ELSE IF upper(c.regression_loss) = "L2"
    THEN [Blank EXCEPT
            !.logits = c.batch,
            !.losses = Scalar(SumSeq([i \in 1..Len(c.batch) |->
                          Mul(Residuals(c.batch)[i], Residuals(c.batch)[i])])
                              \div 2)]
    ELSE IF upper(c.regression_loss) = "L1"
    THEN [Blank EXCEPT
            !.logits = c.batch,
            !.losses = Vector([i \in 1..Len(c.batch) |->
                          Max(Residuals(c.batch)[i], -Residuals(c.batch)[i])])]
    ELSE [Blank EXCEPT !.err = "FinetuneError", !.msg = c.regression_loss]

\* (mutant) the mode follows the train flag
ordinal_regressor_ByTrain(c) ==
    IF c.targets = NoTargets
    THEN [Blank EXCEPT !.logits = c.batch, !.sigmoid = ~c.train]
    ELSE [Blank EXCEPT !.logits = c.batch, !.sigmoid = ~c.train,
                       !.losses = Matrix([i \in 1..Len(c.batch) |->
                                    [k \in 1..c.n_targets |-> (-c.batch[i].ll) * FP]])]

\* sigmoid of the thresholds without targets, the raw logits with them
ordinal_regressor(c) ==
    IF c.targets = NoTargets
    THEN [Blank EXCEPT !.logits = c.batch, !.sigmoid = TRUE]
    ELSE [Blank EXCEPT !.logits = c.batch,
                       !.losses = Matrix([i \in 1..Len(c.batch) |->
                                    [k \in 1..c.n_targets |-> (-c.batch[i].ll) * FP]])]

\* -------------------------------------------------------- sequence labeler
\* lengths, or the full sequence length for every row when lengths is None
EffectiveRows(c) ==
    IF c.lengths_given THEN c.batch
    ELSE [i \in 1..Len(c.batch) |-> [c.batch[i] EXCEPT !.len = c.seq]]

\* the shape of the logits: shape(hidden)[:2] and n_targets, and for
\* multilabel the stack of n_targets (pad logit, class logit) pairs
LogitsShape(c) ==
    IF c.multilabel THEN <<Len(c.batch), c.seq, 2, c.n_targets>>
    ELSE <<Len(c.batch), c.seq, c.n_targets>>

\* the shape of Transition_matrix, or one 2x2 shape per class
TransitionShape(c) ==
    IF c.multilabel THEN [i \in 1..c.n_targets |-> <<2, 2>>]
    ELSE <<c.n_targets, c.n_targets>>

\* (mutant) the log-likelihood is returned without the sign change
CrfLoss_Sign(rows) == Vector(crf_log_likelihood(rows))

\* loss = -log_likelihood: one entry per row
CrfLoss(rows) == Vector([i \in 1..Len(rows) |-> -crf_log_likelihood(rows)[i]])

\* the multilabel loss: from 0.0, one binary chain per class other than the
\* pad class, subtracted (CRF, one entry per row) or added (cross-entropy)
MultilabelLoss(c, rows) ==
    LET chains == c.n_targets - 1
    IN  IF chains = 0 THEN Scalar(0)
        ELSE IF c.use_crf
        THEN Vector([i \in 1..Len(rows) |-> chains * CrfLoss(rows).v[i]])
        ELSE Scalar(chains * weighted_cross_entropy(rows).v)

SequenceLoss(c, rows) ==
    IF c.targets = NoTargets THEN Scalar(0)
    ELSE IF c.multilabel THEN MultilabelLoss(c, rows)
    ELSE IF c.use_crf THEN CrfLoss(rows)
    ELSE weighted_cross_entropy(rows)

sequence_labeler(c) ==
    LET rows == EffectiveRows(c)
    IN  [Blank EXCEPT !.logits = c.batch,
                      !.logits_shape = LogitsShape(c),
                      !.losses = SequenceLoss(c, rows),
                      !.predict_params = SequenceParams,
                      !.transition_matrix = TransitionShape(c),
                      !.sequence_length = Lens(rows)]

\* ------------------------------------------------------------ SSL engines
\* what every engine returns; err names the exception that aborted the call
Returned(logits, losses, lengths, supIn, tsaApplied, sup, unsupTerm) ==
    [Blank EXCEPT !.logits = logits, !.losses = losses,
                  !.sequence_length = lengths, !.supIn = supIn,
                  !.tsaApplied = tsaApplied, !.sup = sup,
                  !.unsupTerm = unsupTerm, !.predict_params = SequenceParams]

Raised(e) == [Blank EXCEPT !.err = e]

\* (mutant) targets absent: the loss is None, as in the linear heads
InferenceOnly_NoneLoss(c) ==
    Returned(c.batch, NoneLoss, Lens(c.batch), <<>>, FALSE, Scalar(0), 0)

\* targets absent: loss keeps its initial value 0.0
InferenceOnly(c) ==
    Returned(c.batch, Scalar(0), Lens(c.batch), <<>>, FALSE, Scalar(0), 0)

\* (mutant) the TSA filter is skipped
TsaRows_Unfiltered(c) == LabeledRows(c)

\* the rows handed to the supervised loss of vat, ict and mean_teacher
TsaRows(c) ==
    IF c.tsa_method # "None"
    THEN tsa_filter(LabeledRows(c), c.step, c.n_targets)
    ELSE LabeledRows(c)

\* the supervised loss of rows: the CRF negative log-likelihood, one entry
\* per row, or the weighted cross-entropy, a scalar
SupervisedLoss(c, rows) ==
    IF c.use_crf THEN CrfLoss(rows) ELSE weighted_cross_entropy(rows)

\* (mutant) the empty batch is not special-cased
TsaGuard_Missing(c, rows, loss) == loss

\* "Make loss 0 if there are no targets that are over the thresh"
TsaGuard(c, rows, loss) ==
    IF c.tsa_method # "None"
    THEN IF Len(rows) = 0 THEN Scalar(0) ELSE loss
    ELSE loss

\* the annealed coefficient: max(0, ssl_loss_coef * warmup(step / total))
loss_coef(c) ==
    Max(0, Mul(c.ssl_loss_coef,
               warmup_constant((c.step * FP) \div TotalSteps, FP \div 4)))

\* the engines with a consistency term
ConsistencyHeads == {"vat", "ict", "mean_teacher"}

\* the name device is bound in ict only
DeviceBound(head) == head = "ict"

\* "CPU:0" if train else device
CrfDeviceRaises(c) == c.use_crf /\ ~c.train /\ ~DeviceBound(c.head)

\* the coefficient each engine multiplies its unsupervised term by
VatCoef(c) == c.ssl_loss_coef
IctCoef(c) == loss_coef(c)
MeanTeacherCoef(c) == c.ssl_loss_coef

\* (mutant) the consistency term reads the rows after the labeled ones
UnsupRows_Unlabeled(c) == UnlabeledRows(c)

\* the rows the consistency term is computed on: all_logits in vat and
\* mean_teacher, u_logits = logits (before the slice) in ict
UnsupRows(c) == c.batch

Consistency(c, coef) ==
    IF CrfDeviceRaises(c) THEN Raised("NameError")
    ELSE LET rows == TsaRows(c)
             sup == reduce_mean(TsaGuard(c, rows, SupervisedLoss(c, rows)))
             term == Mul(coef, c.unsup)
         IN  [Returned(rows, AddLoss(sup, Scalar(term)), Lens(rows), rows,
                       c.tsa_method # "None", sup, term)
                EXCEPT !.unsupIn = UnsupRows(c)]

vat(c) ==
    IF c.targets = NoTargets THEN InferenceOnly(c)
    ELSE Consistency(c, VatCoef(c))

ict(c) ==
    IF c.targets = NoTargets THEN InferenceOnly(c)
    ELSE Consistency(c, IctCoef(c))

mean_teacher(c) ==
    IF c.targets = NoTargets THEN InferenceOnly(c)
    ELSE Consistency(c, MeanTeacherCoef(c))

\* sequence_decode and the probability of the decoded sequence of each
\* unlabeled row: exp of its CRF log-likelihood, or without a CRF the mean
\* over the tokens of the largest class probability, at least 1/n_targets
u_seq_probs(c, rows) ==
    [i \in 1..Len(rows) |->
        IF c.use_crf THEN Exp(rows[i].ll)
        ELSE Max(Exp(rows[i].ll), FP \div c.n_targets)]

\* (mutant) a probability equal to the threshold is kept too
PseudoMask_AtLeast(c, rows) ==
    [i \in 1..Len(rows) |-> u_seq_probs(c, rows)[i] >= c.pseudo_thresh]

\* "Keep only sequences with prob above threshhold"
PseudoMask(c, rows) ==
    [i \in 1..Len(rows) |-> u_seq_probs(c, rows)[i] > c.pseudo_thresh]

\* the examples of a sequence of rows
RowIds(rows) == [i \in 1..Len(rows) |-> rows[i].id]

\* (mutant) the decoded targets are appended without the mask
MaskedTargets_Unmasked(ids, mask) == ids

\* u_targets = tf.boolean_mask(u_targets, mask)
MaskedTargets(ids, mask) == SelectRows(ids, mask)

\* logits, lengths and targets after the concatenation of the labeled rows
\* with the masked unlabeled ones
PseudoTensors(c) ==
    LET u == UnlabeledRows(c)
        mask == PseudoMask(c, u)
    IN  [logits |-> RowIds(LabeledRows(c)) \o SelectRows(RowIds(u), mask),
         lengths |-> RowIds(LabeledRows(c)) \o SelectRows(RowIds(u), mask),
         targets |-> RowIds(LabeledRows(c)) \o MaskedTargets(RowIds(u), mask)]

pseudo_label(c) ==
    IF c.targets = NoTargets THEN InferenceOnly(c)
    ELSE LET u == UnlabeledRows(c)
             rows == LabeledRows(c) \o SelectRows(u, PseudoMask(c, u))
             loss == SupervisedLoss(c, rows)
         IN  [Returned(rows, loss, Lens(rows), rows, FALSE, loss, 0)
                EXCEPT !.lossIn = PseudoTensors(c)]

\* ------------------------------------------------------------ state machine
Batches ==
    UNION {{[i \in 1..n |-> [id |-> i, len |-> f[i][2], ll |-> f[i][1]]] :
              f \in [1..n -> LLValues \X LenValues]} : n \in 1..MaxBatch}

TsaMethods == {"None", "linear"}
PseudoThreshValues == {0, FP \div 2, FP}

\* a call of an SSL engine, with the global step it reads: targets are
\* present in training and evaluation, absent in prediction
SslCall(head, b, t, tsa, crf, tr, k, u, th) ==
    [head |-> head, step |-> global_step, batch |-> b, targets |-> t, tsa_method |-> tsa,
     use_crf |-> crf, train |-> tr, ssl_loss_coef |-> k, unsup |-> u,
     pseudo_thresh |-> th, n_targets |-> NClasses]

NoCall == [head |-> "none"]
NoResult == [err |-> "not called"]

\* no call is in progress
Idle == call = NoCall

\* one graph evaluation of an engine; a training step advances global_step
Step(c, r) ==
    /\ c.train => global_step < TotalSteps
    /\ call' = c
    /\ result' = r
    /\ global_step' = IF c.train THEN global_step + 1 ELSE global_step
    /\ UNCHANGED ema

ConsistencyCalls(head) ==
    {SslCall(head, b, t, tsa, crf, tr, k, u, 0) :
        b \in Batches, t \in {NoTargets} \cup (1..MaxBatch), tsa \in TsaMethods,
        crf \in BOOLEAN, tr \in BOOLEAN, k \in SslCoefValues, u \in UnsupValues}

WellFormed(c) ==
    /\ c.targets # NoTargets => c.targets <= Len(c.batch)
    /\ c.targets = NoTargets => ~c.train /\ c.unsup = 0 /\ c.ssl_loss_coef = 0

VatCall ==
    /\ Idle
    /\ \E c \in ConsistencyCalls("vat") :
          WellFormed(c) /\ Step(c, vat(c))

IctCall ==
    /\ Idle
    /\ \E c \in ConsistencyCalls("ict") :
          WellFormed(c) /\ Step(c, ict(c))

MeanTeacherCall ==
    /\ Idle
    /\ \E c \in ConsistencyCalls("mean_teacher") :
          WellFormed(c) /\ Step(c, mean_teacher(c))

PseudoLabelCall ==
    /\ Idle
    /\ \E b \in Batches, t \in {NoTargets} \cup (1..MaxBatch), crf \in BOOLEAN,
       tr \in BOOLEAN, tsa \in TsaMethods, th \in PseudoThreshValues :
        LET c == SslCall("pseudo_label", b, t, tsa, crf, tr, 0, 0, th)
        IN  WellFormed(c) /\ Step(c, pseudo_label(c))

\* ------------------------------------------------------ document pipeline
\* A text is a sequence of characters; a document is a sequence of pages,
\* each with its text, its doc_offset and its tokens; a label and a token
\* have a start, an end and a text.  Y is the list of the label lists, used
\* when Y_given (Y is not None).
Min(a, b) == IF a <= b THEN a ELSE b

\* s[a:b] for 0 <= a, 0 <= b
Slice(s, a, b) == SubSeq(s, a + 1, Min(b, Len(s)))

RECURSIVE Join(_)
\* "".join(texts)
Join(texts) == IF texts = <<>> THEN <<>> ELSE Head(texts) \o Join(Tail(texts))

\* the names bound in document_labeling.py: its imports and its definitions
ModuleNames ==
    {"SequenceLabeler", "SequencePipeline", "EncodedOutput", "get_context",
     "_single_convert_to_finetune", "DocumentPipeline", "DocumentLabeler"}

\* raise name(...): the exception raised, a NameError when name is unbound
RaisedBy(name) == IF name \in ModuleNames THEN name ELSE "NameError"

RECURSIVE get_context(_)
\* the tokens of every page, in page order
get_context(document) ==
    IF document = <<>> THEN <<>>
    ELSE Head(document).tokens \o get_context(Tail(document))

RECURSIVE Contiguous_FirstPage(_, _)
\* (mutant) only the first page is asserted on
Contiguous_FirstPage(document, last_end) ==
    \/ document = <<>>
    \/ Head(document).start = last_end + 1

RECURSIVE Contiguous(_, _)
\* assert offset["start"] == last_end + 1, page after page
Contiguous(document, last_end) ==
    \/ document = <<>>
    \/ /\ Head(document).start = last_end + 1
       /\ Contiguous(Tail(document), Head(document).end)

\* _single_convert_to_finetune: one text per page, the page text and "\n"
_single_convert_to_finetune(document) ==
    IF ~Contiguous(document, -1) THEN [err |-> "AssertionError"]
    ELSE [err |-> "none",
          texts |-> [i \in 1..Len(document) |-> document[i].text \o <<"\n">>],
          context |-> get_context(document)]

\* (mutant) only the length of the text is compared
Aligned_Length(items, joined_text) ==
    \A k \in 1..Len(items) :
        Len(items[k].text) =
            Len(Slice(joined_text, items[k].start, items[k].end))

\* assert item["text"] == joined_text[item["start"]: item["end"]], for all
Aligned(items, joined_text) ==
    \A k \in 1..Len(items) :
        items[k].text = Slice(joined_text, items[k].start, items[k].end)

\* the dict sample of document i: "context" and "Y" are keys only when set
SampleDict(c, i, text, context) ==
    LET sample == [X |-> text, raw_text |-> Join(text)]
        with_context == IF c.default_context
                        THEN sample @@ [context |-> context] ELSE sample
    IN  IF c.Y_given THEN with_context @@ [Y |-> c.Y[i]] ELSE with_context

\* the body of the loop of zip_list_to_dict for document i
Sample(c, i) ==
    LET conv == _single_convert_to_finetune(c.X[i])
        joined_text == Join(conv.texts)
    IN  IF conv.err # "none" THEN [err |-> conv.err]
        ELSE IF c.default_context /\ ~Aligned(conv.context, joined_text)
        THEN [err |-> "AssertionError"]
        ELSE IF c.Y_given /\ ~Aligned(c.Y[i], joined_text)
        THEN [err |-> "AssertionError"]
        ELSE [err |-> "none",
              sample |-> SampleDict(c, i, conv.texts, conv.context)]

zip_list_to_dict(c) ==
    IF c.context_given THEN Raised("AssertionError")
    ELSE IF c.Y_given /\ Len(c.X) # Len(c.Y) THEN Raised(RaisedBy("FinetuneError"))
    ELSE IF \E i \in 1..Len(c.X) : Sample(c, i).err # "none"
    THEN Raised("AssertionError")
    ELSE [Blank EXCEPT !.out = [i \in 1..Len(c.X) |-> Sample(c, i).sample]]

\* documents: one page; two contiguous pages; two pages with a gap; one page
\* that does not start at 0; one page with a token that is not in its text
Page(text, start, end, tokens) ==
    [text |-> text, start |-> start, end |-> end, tokens |-> tokens]
Item(start, end, text) == [start |-> start, end |-> end, text |-> text]

Documents ==
    {<<Page(<<"a", "b">>, 0, 2, <<Item(0, 2, <<"a", "b">>)>>)>>,
     <<Page(<<"a", "b">>, 0, 2, <<Item(0, 1, <<"a">>)>>),
       Page(<<"c">>, 3, 4, <<Item(3, 4, <<"c">>)>>)>>,
     <<Page(<<"a", "b">>, 0, 2, <<>>), Page(<<"c">>, 4, 5, <<>>)>>,
     <<Page(<<"a", "b">>, 1, 3, <<>>)>>,
     <<Page(<<"a", "b">>, 0, 2, <<Item(0, 2, <<"b", "a">>)>>)>>}

\* the labels of a document: none, one that is in the text, one that is not
LabelLists ==
    {<<>>, <<Item(0, 2, <<"a", "b">>)>>, <<Item(1, 2, <<"a">>)>>}

MaxDocs == 2

SeqsOf(S, lo, hi) == UNION {[1..n -> S] : n \in lo..hi}

ZipListToDictCall ==
    /\ Idle
    /\ \E X \in SeqsOf(Documents, 1, MaxDocs),
          Y \in SeqsOf(LabelLists, 0, MaxDocs + 1), yg \in BOOLEAN,
          dc \in BOOLEAN, cg \in BOOLEAN :
         LET c == [head |-> "zip_list_to_dict", step |-> global_step,
                   train |-> FALSE, X |-> X, Y |-> Y, Y_given |-> yg,
                   default_context |-> dc, context_given |-> cg]
         IN  /\ ~yg => Y = <<>>
             /\ Step(c, zip_list_to_dict(c))

\* ------------------------------------------------------ calls of the heads
NoLabels == <<>>

HeadCall(head, b, t) ==
    [head |-> head, step |-> global_step, batch |-> b, targets |-> t,
     train |-> FALSE, n_targets |-> NClasses]

\* targets of a head cover every row of the batch, or are None
HeadTargets(b) == {NoTargets, Len(b)}

ClassWeightValues ==
    {NoWeights, <<FP, FP, FP>>, <<FP \div 2, FP, 2 * FP>>, <<FP, 3 * FP, FP \div 4>>}

ClassifierCall ==
    /\ Idle
    /\ \E b \in Batches, w \in ClassWeightValues :
         \E t \in HeadTargets(b), y \in [1..Len(b) -> 1..NClasses] :
            LET c == HeadCall("classifier", b, t) @@
                       [labels |-> IF t = NoTargets THEN NoLabels ELSE y,
                        class_weights |-> w]
            IN  /\ t = NoTargets => \A i \in 1..Len(b) : y[i] = 1
                /\ Step(c, classifier(c))

MultiChoiceQuestionCall ==
    /\ Idle
    /\ \E b \in Batches : \E t \in HeadTargets(b) :
         LET c == HeadCall("multi_choice_question", b, t)
         IN  Step(c, multi_choice_question(c))

MultiClassifierCall ==
    /\ Idle
    /\ \E b \in Batches : \E t \in HeadTargets(b) :
         LET c == HeadCall("multi_classifier", b, t)
         IN  Step(c, multi_classifier(c))

RegressorCall ==
    /\ Idle
    /\ \E b \in Batches, kind \in RegressionLossKinds : \E t \in HeadTargets(b) :
         LET c == HeadCall("regressor", b, t) @@ [regression_loss |-> kind]
         IN  Step(c, regressor(c))

OrdinalRegressorCall ==
    /\ Idle
    /\ \E b \in Batches, tr \in BOOLEAN : \E t \in HeadTargets(b) :
         LET c == [HeadCall("ordinal_regressor", b, t) EXCEPT !.train = tr]
         IN  /\ tr => t # NoTargets
             /\ Step(c, ordinal_regressor(c))

\* hidden of shape (batch, 5, 8) with rows of 3 or 5 tokens
SeqLenValues == {3, 5}
SeqShapes == {[seq |-> 5, embed |-> 8]}

SeqBatches ==
    UNION {{[i \in 1..n |-> [id |-> i, len |-> f[i][2], ll |-> f[i][1]]] :
              f \in [1..n -> LLValues \X SeqLenValues]} : n \in 1..MaxBatch}

SequenceLabelerCall ==
    /\ Idle
    /\ \E b \in SeqBatches, sh \in SeqShapes, ml \in BOOLEAN, crf \in BOOLEAN,
          lg \in BOOLEAN : \E t \in HeadTargets(b) :
         LET c == HeadCall("sequence_labeler", b, t) @@
                    [seq |-> sh.seq, embed |-> sh.embed, multilabel |-> ml,
                     use_crf |-> crf, lengths_given |-> lg, pad_id |-> 1]
         IN  Step(c, sequence_labeler(c))

\* ------------------------------------------------------ tensor computations
\* The heads' arithmetic on small tensors.  A potential is the exponential of
\* a score, a natural number of float ulps: 0 is a potential that underflows
\* next to the largest one.  A log-likelihood is kept as the pair of
\* potentials whose quotient it is the logarithm of.
CrfTagCounts == {2}
CrfSteps == {2}
UnaryPotentials == {0, 1, 2}
BinaryPotentials == {0, 1}

\* the potential of the tag path p over the first t tokens: the product of the
\* unary potentials of its tags and of the transitions between them
RECURSIVE PathPotential(_, _, _)
PathPotential(c, p, t) ==
    IF t <= 0 THEN 1
    ELSE PathPotential(c, p, t - 1) * c.unary[t][p[t]]
           * (IF t = 1 THEN 1 ELSE c.trans[p[t - 1]][p[t]])

\* crf_sequence_score: unary and binary scores of the tags, masked to length
crf_sequence_score(c) == PathPotential(c, c.tags, c.length)

\* crf_forward: the forward variables alpha after t tokens, one per tag
RECURSIVE crf_forward(_, _)
crf_forward(c, t) ==
    IF t = 1 THEN [y \in 1..c.n_tags |-> c.unary[1][y]]
    ELSE LET alpha == crf_forward(c, t - 1)
         IN  [y \in 1..c.n_tags |->
                SumSeq([x \in 1..c.n_tags |-> alpha[x] * c.trans[x][y]])
                  * c.unary[t][y]]

\* (mutant) the forward pass runs over the padding too
crf_log_norm_Unmasked(c) ==
    SumSeq(crf_forward(c, c.seq))

\* crf_log_norm: the sum of the forward variables after length tokens; the
\* log-norm of an empty sequence is 0
crf_log_norm(c) ==
    IF c.length <= 0 THEN 1 ELSE SumSeq(crf_forward(c, c.length))

\* loss = -log_likelihood = log_norm - sequence_score
CrfNll(c) == [kind |-> "log", num |-> crf_log_norm(c),
              den |-> crf_sequence_score(c)]

\* finite logits: the best path of the sequence has not underflowed
FiniteLogits(c) == crf_log_norm(c) > 0

CrfLogLikelihoodCall ==
    /\ Idle
    /\ \E n \in CrfTagCounts, s \in CrfSteps :
         \E u \in [1..s -> [1..n -> UnaryPotentials]],
            tr \in [1..n -> [1..n -> BinaryPotentials]],
            y \in [1..s -> 1..n], l \in 0..s :
            LET c == [head |-> "crf_log_likelihood", train |-> FALSE,
                      n_tags |-> n, seq |-> s, unary |-> u, trans |-> tr,
                      tags |-> y, length |-> l]
            IN  /\ FiniteLogits(c)
                /\ Step(c, [Blank EXCEPT !.losses = CrfNll(c)])

\* the cross-entropy fallback, token by token: ce[b][t] is the cross-entropy
\* of the logits of token t of row b against its target
TokenLosses == {0, FP}
MaskLens == {3}
MaskBatches == {1, 2}

\* (mutant) every position of the row carries the weight 1 / length
sequence_mask_AllOnes(length, maxlen) == [t \in 1..maxlen |-> 1]

\* tf.sequence_mask(lengths, maxlen): 1.0 on the first length positions
sequence_mask(length, maxlen) ==
    [t \in 1..maxlen |-> IF t <= length THEN 1 ELSE 0]

\* the float NaN among the weights, which are otherwise >= 0
NaN == -1

\* weights = sequence_mask(lengths, maxlen) / lengths: for a row of length 0
\* every entry is 0.0 / 0.0
TokenWeights(c) ==
    [b \in 1..Len(c.lengths) |->
        [t \in 1..c.seq |->
            IF c.lengths[b] = 0 THEN NaN
            ELSE (sequence_mask(c.lengths[b], c.seq)[t] * FP) \div c.lengths[b]]]

\* tf.compat.v1.losses.sparse_softmax_cross_entropy(targets, logits, weights):
\* the weighted sum of the token losses over the number of non-zero weights
sparse_softmax_cross_entropy(ce, weights, maxlen) ==
    LET total == SumSeq([b \in 1..Len(ce) |->
                    SumSeq([t \in 1..maxlen |-> Mul(weights[b][t], ce[b][t])])])
        count == SumSeq([b \in 1..Len(ce) |->
                    SumSeq([t \in 1..maxlen |->
                              IF weights[b][t] # 0 THEN 1 ELSE 0])])
    IN  IF \E b \in 1..Len(ce) : \E t \in 1..maxlen : weights[b][t] = NaN
        THEN NaNLoss
        ELSE Scalar(IF count = 0 THEN 0 ELSE total \div count)

FallbackLoss(c) == sparse_softmax_cross_entropy(c.ce, TokenWeights(c), c.seq)

\* the token losses once logits and targets at the positions >= length are
\* replaced by those of c.pad
Repadded(c) ==
    [c EXCEPT !.ce = [b \in 1..Len(c.ce) |->
                        [t \in 1..c.seq |->
                            IF t <= c.lengths[b] THEN c.ce[b][t]
                            ELSE c.pad[b][t]]]]

CrossEntropyCall ==
    /\ Idle
    /\ \E n \in MaskBatches, s \in MaskLens :
         \E ce \in [1..n -> [1..s -> TokenLosses]],
            pad \in [1..n -> [1..s -> TokenLosses]],
            l \in [1..n -> 0..s] :
            LET c == [head |-> "sparse_softmax_cross_entropy", train |-> FALSE,
                      seq |-> s, ce |-> ce, pad |-> pad, lengths |-> l]
            IN  /\ \A b \in 1..n : \A t \in 1..s :
                      t <= l[b] => pad[b][t] = ce[b][t]
                /\ Step(c, [Blank EXCEPT !.losses = FallbackLoss(c)])

\* the consistency term of mean_teacher and ict on a batch of embeddings:
\* one number per row, a featurizer of one weight with a rectifier (dropout
\* off), and the engine's Dense layer shared by the student and the teacher
Embeddings == {0 - FP, 0, FP}
FeaturizerWeights == {FP, 2 * FP}
BetaSamples == {FP \div 4, FP \div 2}
UBatches == {1, 2}

\* featurizer_fn(embedding)["sequence_features"] under the parameters w
featurizer_fn(w, x) == [i \in 1..Len(x) |-> Max(0, Mul(w, x[i]))]

\* tf.gather(x, indices, axis=0)
Gather(x, indices) == [i \in 1..Len(x) |-> x[indices[i]]]

\* lam * a + (1 - lam) * b, row by row
Mix(lam, a, b) == [i \in 1..Len(a) |-> Mul(lam, a[i]) + Mul(FP - lam, b[i])]

\* tf.reduce_mean(tf.keras.losses.MSE(a, b))
MSE(a, b) ==
    SumSeq([i \in 1..Len(a) |-> Mul(a[i] - b[i], a[i] - b[i])]) \div Len(a)

\* (mutant) the teacher's rows come back in the reverse order
ema_logits_Reversed(c) ==
    LET h == featurizer_fn(c.ema, c.embed)
    IN  [i \in 1..Len(h) |-> h[Len(h) + 1 - i]]

\* the teacher: the featurizer under the EMA getter, then the layer
ema_logits(c) == featurizer_fn(c.ema, c.embed)

\* mean_teacher: MSE(all_logits, ema_logits)
mean_teacher_u_loss(c) == MSE(featurizer_fn(c.live, c.embed), ema_logits(c))

\* ict: the student on the mixed inputs against the mix of the teacher's
\* predictions, each mix with its own sample of lam
ict_u_loss(c) ==
    LET mix_input == Mix(c.lam, c.embed, Gather(c.embed, c.shuffle))
        mix_logits == featurizer_fn(c.live, mix_input)
        ema_mix_logits == Mix(c.lam2, ema_logits(c),
                              Gather(ema_logits(c), c.shuffle))
    IN  MSE(mix_logits, ema_mix_logits)

u_loss(c) ==
    IF c.engine = "ict" THEN ict_u_loss(c) ELSE mean_teacher_u_loss(c)

\* tf.random.shuffle(tf.range(n)): a permutation
Shuffles(n) == {p \in [1..n -> 1..n] : \A i, j \in 1..n : p[i] = p[j] => i = j}

ConsistencyLossCall ==
    /\ Idle
    /\ \E e \in ConsistencyHeads \ {"vat"}, n \in UBatches,
          live \in FeaturizerWeights, teacher \in FeaturizerWeights,
          lam \in BetaSamples, lam2 \in BetaSamples :
         \E x \in [1..n -> Embeddings], p \in Shuffles(n) :
            LET c == [head |-> "u_loss", engine |-> e, train |-> FALSE,
                      embed |-> x, live |-> live, ema |-> teacher,
                      lam |-> lam, lam2 |-> lam2, shuffle |-> p]
            IN  Step(c, [Blank EXCEPT !.losses = Scalar(u_loss(c))])

\* -------------------------------------------------------------- association
\* hidden has max_length positions; pce[b][i][j] is the cross-entropy of the
\* association logits of the token pair (i, j) of row b against its class id
AssocBatches == {1, 2}
AssocMaxLengths == {2}
AssocLens == {1, 2}
AssocLLValues == {0, -1}
AssocLossWeights == {0, FP \div 2}
PairLosses == {0, FP}

\* (mutant) only the first token of the pair is masked
PairMask_FirstOnly(c) ==
    [b \in 1..Len(c.batch) |->
        [i \in 1..c.max_length |->
            [j \in 1..c.max_length |->
                sequence_mask(c.batch[b].len, c.max_length)[i]]]]

\* mask = expand_dims(sequence_mask, 1) * expand_dims(sequence_mask, 2)
PairMask(c) ==
    [b \in 1..Len(c.batch) |->
        [i \in 1..c.max_length |->
            [j \in 1..c.max_length |->
                sequence_mask(c.batch[b].len, c.max_length)[j]
                  * sequence_mask(c.batch[b].len, c.max_length)[i]]]]

\* sparse_softmax_cross_entropy over the flattened pairs with the flattened
\* mask as weights
association_loss(c) ==
    LET flat(m) == [k \in 1..(Len(c.batch) * c.max_length) |->
                      [j \in 1..c.max_length |->
                          m[((k - 1) \div c.max_length) + 1]
                           [((k - 1) % c.max_length) + 1][j] * FP]]
        unit(m) == [k \in 1..(Len(c.batch) * c.max_length) |->
                      [j \in 1..c.max_length |->
                          m[((k - 1) \div c.max_length) + 1]
                           [((k - 1) % c.max_length) + 1][j]]]
    IN  sparse_softmax_cross_entropy(unit(c.pce), flat(PairMask(c)),
                                     c.max_length)

\* predict_params of association: the transition matrix alone
AssociationParams == {"transition_matrix"}

association(c) ==
    IF c.targets = NoTargets
    THEN [Blank EXCEPT !.logits = c.batch, !.losses = Scalar(0),
                       !.predict_params = AssociationParams,
                       !.transition_matrix = <<c.n_targets, c.n_targets>>]
    ELSE [Blank EXCEPT
            !.logits = c.batch,
            !.losses = Vector([b \in 1..Len(c.batch) |->
                          (0 - crf_log_likelihood(c.batch)[b])
                            + Mul(c.assocation_loss_weight,
                                  association_loss(c).v)]),
            !.predict_params = AssociationParams,
            !.transition_matrix = <<c.n_targets, c.n_targets>>]

AssocRows ==
    UNION {{[i \in 1..n |-> [id |-> i, len |-> f[i][2], ll |-> f[i][1]]] :
              f \in [1..n -> AssocLLValues \X AssocLens]} : n \in AssocBatches}

AssociationCall ==
    /\ Idle
    /\ \E b \in AssocRows, L \in AssocMaxLengths, w \in AssocLossWeights :
         \E t \in HeadTargets(b),
            pce \in [1..Len(b) -> [1..L -> [1..L -> PairLosses]]] :
            LET c == HeadCall("association", b, t) @@
                       [max_length |-> L, pce |-> pce,
                        assocation_loss_weight |-> w]
            IN  /\ t = NoTargets =>
                      \A r \in 1..Len(b) : \A i, j \in 1..L : pce[r][i][j] = 0
                /\ Step(c, association(c))

\* ---------------------------------------------------------- class_reweighting
\* logits, gradients and weights are flat tensors; a norm is kept as its
\* square, and the gradient returned as new_g with the square of its ratio
GradValues == {0 - FP, 0, FP}
ReweightValues == {FP \div 2, FP, 2 * FP}
GradSizes == {2, 3}

\* the square of tf.norm(tensor)
SquaredNorm(x) == SumSeq([i \in 1..Len(x) |-> x[i] * x[i]])

\* grad(g): new_g * (norm(g) / norm(new_g)); a norm(new_g) of 0 divides by 0
grad(g, class_weights) ==
    LET new_g == [i \in 1..Len(g) |-> Mul(g[i], class_weights[i])]
    IN  IF SquaredNorm(new_g) = 0
        THEN [kind |-> "nan"]
        ELSE [kind |-> "scaled", new_g |-> new_g,
              ratio2 |-> [num |-> SquaredNorm(g), den |-> SquaredNorm(new_g)]]

\* custom_grad(logits): tf.identity(logits) and grad
class_reweighting(logits, g, class_weights) ==
    [Blank EXCEPT !.logits = logits] @@ [grad |-> grad(g, class_weights)]

ClassReweightingCall ==
    /\ Idle
    /\ \E n \in GradSizes :
         \E x \in [1..n -> GradValues], g \in [1..n -> GradValues],
            w \in [1..n -> ReweightValues] :
            LET c == [head |-> "class_reweighting", train |-> FALSE,
                      logits |-> x, g |-> g, class_weights |-> w]
            IN  Step(c, class_reweighting(x, g, w))

\* ------------------------------------------------- multi_choice_question
\* hidden[b][c] is the embedding (one number) of choice c of example b
ChoiceBatches == {1, 2, 3}
ChoiceCounts == {2, 3}
ChoiceEmbeddings == {0, FP}
PerceptronWeights == {FP, 2 * FP}
PerceptronBiases == {0, FP}

\* perceptron(x, 1, config): tf.matmul(x, w) + b, row by row
perceptron(x, w, b) == [k \in 1..Len(x) |-> Mul(x[k], w) + b]

\* (mutant) the rows are flattened example by example, as tf.reshape would
Flatten_Reshape(hidden, num) ==
    [k \in 1..(Len(hidden) * num) |->
        hidden[((k - 1) \div num) + 1][((k - 1) % num) + 1]]

\* tf.unstack(hidden, num, axis=1) then tf.concat(axis=0): the rows of
\* choice 1 for every example, then those of choice 2, ...
Flatten(hidden, num) ==
    LET unstacked == [c \in 1..num |->
                        [b \in 1..Len(hidden) |-> hidden[b][c]]]
    IN  [k \in 1..(Len(hidden) * num) |->
            unstacked[((k - 1) \div Len(hidden)) + 1]
                     [((k - 1) % Len(hidden)) + 1]]

\* tf.split(clf_out, num, axis=0) then tf.concat(axis=1)
Unflatten(clf_out, num) ==
    LET size == Len(clf_out) \div num
        pieces == [c \in 1..num |->
                     SubSeq(clf_out, (c - 1) * size + 1, c * size)]
    IN  [b \in 1..size |-> [c \in 1..num |-> pieces[c][b]]]

\* clf_out of multi_choice_question
ChoiceLogits(c) ==
    Unflatten(perceptron(Flatten(c.hidden, c.n_targets), c.w, c.b),
              c.n_targets)

MultiChoiceLogitsCall ==
    /\ Idle
    /\ \E n \in ChoiceBatches, k \in ChoiceCounts, w \in PerceptronWeights,
          b \in PerceptronBiases :
         \E h \in [1..n -> [1..k -> ChoiceEmbeddings]] :
            LET c == [head |-> "clf_out", train |-> FALSE, hidden |-> h,
                      n_targets |-> k, w |-> w, b |-> b]
            IN  Step(c, [Blank EXCEPT !.logits = ChoiceLogits(c)])

\* ------------------------------------------------------- vat: crf_probs
\* the tag paths over all seq positions of the padded row
FullPaths(c) == [1..c.seq -> 1..c.n_tags]

TopKValues == {1, 2}

\* k_best_sequence_decode(all_logits, transition_params, vat_top_k): k
\* different paths over the padded row, best first, none worse than a path
\* left out; it is given no lengths
IsKBest(c, top) ==
    /\ \A i, j \in 1..Len(top) : i < j =>
          /\ top[i] # top[j]
          /\ PathPotential(c, top[i], c.seq) >= PathPotential(c, top[j], c.seq)
    /\ \A p \in FullPaths(c) :
          (\A i \in 1..Len(top) : top[i] # p) =>
              \A i \in 1..Len(top) :
                  PathPotential(c, top[i], c.seq) >= PathPotential(c, p, c.seq)

\* crf_probs: exp of the log-likelihood of each of the k paths over the
\* first length tokens, then 1 minus their sum; numerators over the norm
crf_probs(c) ==
    LET k_probs == [k \in 1..Len(c.top_k_targets) |->
                       PathPotential(c, c.top_k_targets[k], c.length)]
    IN  [num |-> k_probs \o <<crf_log_norm(c) - SumSeq(k_probs)>>,
         den |-> crf_log_norm(c)]

CrfProbsCall ==
    /\ Idle
    /\ \E n \in CrfTagCounts, s \in CrfSteps, k \in TopKValues :
         \E u \in [1..s -> [1..n -> UnaryPotentials]],
            tr \in [1..n -> [1..n -> BinaryPotentials]],
            l \in 1..s, top \in [1..k -> [1..s -> 1..n]] :
            LET c == [head |-> "crf_probs", train |-> FALSE,
                      n_tags |-> n, seq |-> s, unary |-> u, trans |-> tr,
                      length |-> l, vat_top_k |-> k, top_k_targets |-> top]
            IN  /\ FiniteLogits(c)
                /\ FiniteLogits([c EXCEPT !.length = c.seq])
                /\ IsKBest(c, top)
                /\ Step(c, Blank @@ [probs |-> crf_probs(c)])

\* ------------------------------------------ _apply_multilabel_class_weight
\* targets[i][k] is 1 where example i has class k, class_weights one weight
\* per class, losses one entry per (example, class)
MultilabelBatches == {1, 2}
MultilabelCounts == {2, 3}

\* (mutant) normalised by the batch size alone
multilabel_weights_ByBatch(targets, class_weights) ==
    LET raw == [i \in 1..Len(targets) |->
                  [k \in 1..Len(class_weights) |->
                      class_weights[k] * targets[i][k]
                        + FP * (1 - targets[i][k])]]
    IN  [num |-> [i \in 1..Len(raw) |->
                    [k \in 1..Len(raw[i]) |-> raw[i][k] * Len(targets)]],
         den |-> SumSeq([i \in 1..Len(raw) |-> SumSeq(raw[i])])]

\* weights: the class weight where the target is 1 and 1 where it is 0,
\* times the number of entries over their sum; numerators over one
\* denominator
multilabel_weights(targets, class_weights) ==
    LET raw == [i \in 1..Len(targets) |->
                  [k \in 1..Len(class_weights) |->
                      class_weights[k] * targets[i][k]
                        + FP * (1 - targets[i][k])]]
    IN  [num |-> [i \in 1..Len(raw) |->
                    [k \in 1..Len(raw[i]) |->
                        raw[i][k] * (Len(targets) * Len(class_weights))]],
         den |-> SumSeq([i \in 1..Len(raw) |-> SumSeq(raw[i])])]

\* losses *= weights
_apply_multilabel_class_weight(losses, targets, class_weights) ==
    IF class_weights = NoWeights THEN Matrix(losses)
    ELSE LET w == multilabel_weights(targets, class_weights)
         IN  Matrix([i \in 1..Len(losses) |->
                       [k \in 1..Len(losses[i]) |->
                           (w.num[i][k] * losses[i][k]) \div w.den]])

MultilabelWeightCall ==
    /\ Idle
    /\ \E b \in MultilabelBatches, n \in MultilabelCounts :
         \E t \in [1..b -> [1..n -> {0, 1}]],
            w \in [1..n -> ReweightValues] \cup {NoWeights},
            l \in TokenLosses :
            LET c == [head |-> "_apply_multilabel_class_weight",
                      train |-> FALSE, targets |-> t, class_weights |-> w,
                      losses |-> [i \in 1..b |-> [k \in 1..n |-> l]]]
            IN  Step(c, [Blank EXCEPT
                           !.losses = _apply_multilabel_class_weight(
                                          c.losses, t, w),
                           !.weights = IF w = NoWeights THEN @
                                       ELSE multilabel_weights(t, w)])

\* ------------------------------------------- DocumentPipeline._text_to_ids
\* X is the list of the page texts of one document.  The chunks of a page
\* are those of SequencePipeline._text_to_ids: one token per character, at
\* most max_length tokens a chunk, token_starts and token_ends the character
\* offsets within the page.
PageTexts == {<<"a", "b", "\n">>, <<"c", "\n">>}
MaxPages == 3
ChunkLengths == {1, 2, 3}

ChunkCount(X_page, max_length) == (Len(X_page) + max_length - 1) \div max_length

BaseChunks(X_page, max_length) ==
    [j \in 1..ChunkCount(X_page, max_length) |->
        LET lo == (j - 1) * max_length + 1
            hi == Min(j * max_length, Len(X_page))
        IN  [token_ids |-> SubSeq(X_page, lo, hi),
             token_starts |-> [k \in 1..(hi - lo + 1) |-> lo + k - 2],
             token_ends |-> [k \in 1..(hi - lo + 1) |-> lo + k - 1]]]

\* (mutant) the offset is the length of the last page alone
PageOffset_LastPage(offset, X_page) == Len(X_page)

\* offset += len(X_page)
PageOffset(offset, X_page) == offset + Len(X_page)

\* EncodedOutput(**chunk_dict) with token_starts and token_ends plus offset
ShiftedChunk(chunk, offset) ==
    [chunk EXCEPT
        !.token_starts = [k \in 1..Len(@) |-> @[k] + offset],
        !.token_ends = [k \in 1..Len(@) |-> @[k] + offset]]

RECURSIVE TextToIds(_, _, _)
\* the chunks yielded from the pages X on, page after page
TextToIds(X, offset, max_length) ==
    IF X = <<>> THEN <<>>
    ELSE LET chunks == BaseChunks(Head(X), max_length)
         IN  [j \in 1..Len(chunks) |-> ShiftedChunk(chunks[j], offset)]
               \o TextToIds(Tail(X), PageOffset(offset, Head(X)), max_length)

_text_to_ids(X, max_length) ==
    IF \E i \in 1..Len(X) :
          \E j \in 1..ChunkCount(X[i], max_length) :
             LET chunk == BaseChunks(X[i], max_length)[j]
             IN  Len(chunk.token_starts) # Len(chunk.token_ends)
    THEN Raised("AssertionError")
    ELSE [Blank EXCEPT !.out = TextToIds(X, 0, max_length)]

TextToIdsCall ==
    /\ Idle
    /\ \E X \in SeqsOf(PageTexts, 1, MaxPages), n \in ChunkLengths :
         Step([head |-> "_text_to_ids", train |-> FALSE, X |-> X,
               max_length |-> n],
              _text_to_ids(X, n))

\* pages for _single_convert_to_finetune: doc_offset starts and ends that
\* chain (0-2, 3-4, 5-) and that do not
ConvertPages ==
    {Page(t, s, e, <<>>) : t \in {<<"a", "b">>, <<"c">>}, s \in {0, 3, 5},
                           e \in {2, 4}}

SingleConvertCall ==
    /\ Idle
    /\ \E document \in SeqsOf(ConvertPages, 0, MaxPages) :
         LET conv == _single_convert_to_finetune(document)
         IN  Step([head |-> "_single_convert_to_finetune", train |-> FALSE,
                   document |-> document],
                  IF conv.err # "none" THEN Raised(conv.err)
                  ELSE [Blank EXCEPT
                          !.out = [texts |-> conv.texts,
                                   context |-> conv.context]])

\* ------------------------------------- sequence_labeler: the multilabel path
\* One row of c.seq tokens at full length, in the potential domain:
\* c.unary[t][k + 1] is exp(logits[t][k]) of class k in 0..n_targets-1,
\* c.targets[t][k + 1] in {0, 1} the multi-hot target, c.trans[k + 1] the
\* potentials of Transition_matrix_k; class_weights is None.
ChainCounts == {2, 3}
ChainSteps == {2}
ChainPotentials == {1, 2}
ChainTransitions == {<<<<1, 1>>, <<1, 1>>>>, <<<<1, 2>>, <<1, 1>>>>}

\* tf.stack((logits_individual[pad_id], logits_individual[i]), axis=-1)
ChainLogits(c, i) ==
    [t \in 1..c.seq |-> <<c.unary[t][c.pad_id + 1], c.unary[t][i + 1]>>]

\* targets_individual[i], as tags 1 (pad) and 2 (class i)
ChainTargets(c, i) == [t \in 1..c.seq |-> c.targets[t][i + 1] + 1]

\* the binary chain of class i as a CRF over two tags
BinaryChain(c, i) ==
    [n_tags |-> 2, seq |-> c.seq, length |-> c.seq,
     unary |-> ChainLogits(c, i), trans |-> c.trans[i + 1],
     tags |-> ChainTargets(c, i)]

RECURSIVE ProdSeq(_)
ProdSeq(s) == IF s = <<>> THEN 1 ELSE Head(s) * ProdSeq(Tail(s))

\* the loss of the chain of class i, log(num / den) / div: the CRF negative
\* log-likelihood, or the cross-entropy of the 2-way logits weighted by
\* sequence_mask / lengths and divided by the number of non-zero weights
ChainLoss(c, i) ==
    LET chain == BinaryChain(c, i)
    IN  IF c.use_crf
        THEN [kind |-> "log", num |-> CrfNll(chain).num,
              den |-> CrfNll(chain).den, div |-> 1]
        ELSE [kind |-> "log",
              num |-> ProdSeq([t \in 1..c.seq |-> SumSeq(chain.unary[t])]),
              den |-> ProdSeq([t \in 1..c.seq |->
                                  chain.unary[t][chain.tags[t]]]),
              div |-> c.seq * c.seq]

\* loss -= ...[0], loss += ...: from the float 0.0 on
AddChain(loss, term) ==
    IF loss = Scalar(0) THEN term
    ELSE [term EXCEPT !.num = loss.num * term.num,
                      !.den = loss.den * term.den]

\* (mutant) every class adds its chain loss, the pad class too
ChainCounted_All(c, i) == c.targets_given

\* if targets is not None and i != pad_id
ChainCounted(c, i) == c.targets_given /\ i # c.pad_id

RECURSIVE MultilabelLoop(_, _, _)
\* for i in range(n_targets), from class i on: the transition matrices and
\* the logit stacks built so far and the loss
MultilabelLoop(c, i, acc) ==
    IF i = c.n_targets THEN acc
    ELSE MultilabelLoop(c, i + 1,
            [transition_params |->
                 Append(acc.transition_params, c.trans[i + 1]),
             logits |-> Append(acc.logits, ChainLogits(c, i)),
             loss |-> IF ChainCounted(c, i)
                      THEN AddChain(acc.loss, ChainLoss(c, i))
                      ELSE acc.loss])

\* the multilabel branch: logits = tf.stack(logits, axis=-1)
multilabel(c) ==
    LET built == MultilabelLoop(c, 0,
                    [transition_params |-> <<>>, logits |-> <<>>,
                     loss |-> Scalar(0)])
    IN  [Blank EXCEPT
           !.logits = [t \in 1..c.seq |->
                         [j \in 1..2 |->
                             [k \in 1..c.n_targets |-> built.logits[k][t][j]]]],
           !.losses = built.loss,
           !.predict_params = SequenceParams,
           !.transition_matrix = built.transition_params,
           !.sequence_length = <<c.seq>>]

MultilabelCall ==
    /\ Idle
    /\ \E n \in ChainCounts, s \in ChainSteps :
         \E u \in [1..n -> ChainPotentials], tr \in [1..n -> ChainTransitions],
            y \in [1..s -> [1..n -> {0, 1}]], pad \in 0..(n - 1),
            tg \in BOOLEAN, crf \in BOOLEAN :
            LET c == [head |-> "multilabel", train |-> FALSE, n_targets |-> n,
                      seq |-> s, unary |-> [t \in 1..s |-> u], trans |-> tr,
                      targets |-> y, targets_given |-> tg, pad_id |-> pad,
                      use_crf |-> crf]
            IN  /\ ~tg => y = [t \in 1..s |-> [k \in 1..n |-> 0]]
                /\ Step(c, multilabel(c))

Init ==
    /\ global_step = 0
    /\ call = NoCall
    /\ result = NoResult
    /\ ema = 0

\* the caller takes the result; the next graph evaluation can start
Return ==
    /\ call # NoCall
    /\ call' = NoCall
    /\ result' = NoResult
    /\ UNCHANGED <<global_step, ema>>

Next ==
    \/ ClassifierCall \/ MultiChoiceQuestionCall \/ MultiClassifierCall
    \/ RegressorCall \/ OrdinalRegressorCall \/ SequenceLabelerCall
    \/ VatCall \/ IctCall \/ MeanTeacherCall \/ PseudoLabelCall
    \/ ZipListToDictCall \/ AssociationCall \/ TextToIdsCall
    \/ SingleConvertCall
    \/ Return

Spec == Init /\ [][Next]_vars

\* ------------------------------------------------- vat: the power iteration
\* The adversarial part of vat, statement by statement, on one row and one
\* feature: the perturbation is a number, l2_normalize its sign, and the KL
\* divergence of two distributions half the squared difference of their
\* logits.  call is the configuration and the inputs; result is the state of
\* the construction: pc, adv_vector, the reference probs, adv_loss, and the
\* counts of initialisations, reference evaluations and replacements.
MaxVatK == 2
VatEpsilons == {FP \div 2, FP}
VatHidden == {0, FP}
VatUniform == {0, FP \div 2}

VatAdvCalls ==
    {[head |-> "vat_adv", train |-> FALSE, vat_k |-> k, vat_e |-> e,
      hidden |-> h, w |-> w, uniform |-> r] :
        k \in 0..MaxVatK, e \in VatEpsilons, h \in VatHidden,
        w \in PerceptronWeights, r \in VatUniform}

VatStart ==
    [pc |-> "init", adv_vector |-> 0, probs |-> 0, adv_loss |-> 0,
     inits |-> 0, refs |-> 0, replaced |-> 0, loss_from |-> -1,
     constant |-> FALSE]

\* tf.nn.l2_normalize(x, axis=-1) on one feature: x / max(|x|, eps)
l2_normalize(x) == IF x > 0 THEN FP ELSE IF x < 0 THEN 0 - FP ELSE 0

\* after_transformer: layer(hidden + perturbation)
out_fn(c, perturbation) == Mul(c.w, c.hidden + perturbation)

\* tf.reduce_mean(kl_div(probs, adv_probs))
kl_div(probs, adv_probs) == Mul(adv_probs - probs, adv_probs - probs) \div 2

\* tf.gradients(adv_loss, adv_vector)
kl_gradient(c, probs, adv_vector) ==
    Mul(out_fn(c, adv_vector) - probs, c.w)

\* (mutant) one more pass of the loop
range_OneMore(c) == c.vat_k + 1

\* range(config.vat_k): the number of passes of the loop
range(c) == c.vat_k

\* adv_vector = config.vat_e * l2_normalize(tf.random.uniform(pert_shape))
VatInitPerturbation ==
    /\ call.head = "vat_adv" /\ result.pc = "init"
    /\ result' = [result EXCEPT
                    !.pc = "reference",
                    !.adv_vector = Mul(call.vat_e, l2_normalize(call.uniform)),
                    !.inits = @ + 1]
    /\ UNCHANGED <<call, global_step, ema>>

\* probs = tf.stop_gradient(prob_fn(all_logits))
VatReference ==
    /\ call.head = "vat_adv" /\ result.pc = "reference"
    /\ result' = [result EXCEPT !.pc = "loop",
                                !.probs = out_fn(call, 0),
                                !.refs = @ + 1]
    /\ UNCHANGED <<call, global_step, ema>>

\* one pass of the loop: the loss at the current perturbation, its gradient,
\* and the perturbation replaced by the scaled, normalised gradient, held
\* constant from then on
VatPowerIteration ==
    /\ call.head = "vat_adv" /\ result.pc = "loop"
    /\ result.replaced < range(call)
    /\ result' = [result EXCEPT
                    !.adv_loss = kl_div(result.probs,
                                        out_fn(call, result.adv_vector)),
                    !.loss_from = result.replaced,
                    !.adv_vector =
                        Mul(call.vat_e,
                            l2_normalize(kl_gradient(call, result.probs,
                                                     result.adv_vector))),
                    !.replaced = @ + 1,
                    !.constant = TRUE]
    /\ UNCHANGED <<call, global_step, ema>>

\* after the loop: the adversarial loss the engine adds to the returned loss
VatAdvLoss ==
    /\ call.head = "vat_adv" /\ result.pc = "loop"
    /\ result.replaced >= range(call)
    /\ result' = [result EXCEPT
                    !.pc = "done",
                    !.adv_loss = kl_div(result.probs,
                                        out_fn(call, result.adv_vector)),
                    !.loss_from = result.replaced]
    /\ UNCHANGED <<call, global_step, ema>>

InitVat ==
    /\ global_step = 0
    /\ ema = 0
    /\ call \in VatAdvCalls
    /\ result = VatStart

NextVat ==
    \/ VatInitPerturbation \/ VatReference \/ VatPowerIteration \/ VatAdvLoss

SpecVat == InitVat /\ [][NextVat]_vars

\* --------------------------------------------------------- the EMA teacher
\* The graph ict and mean_teacher build for the teacher, and its execution
\* step by step.  ema holds: the engine; pc, the position in the graph
\* construction; UPDATE_OPS, the graph's collection of update ops;
\* update_ops, the list the engine read from it; teacher_deps, the control
\* dependencies of the teacher's forward pass; decay; live and shadow, the
\* value of a featurizer parameter and of its moving average; updates, the
\* number of EMA updates applied so far; ran, the ops that have run in the
\* current step; writes, the number of writes of shadow in the current step;
\* seen, the number of updates the shadow had when the teacher last read it.
EmaDecays == {FP \div 2, (3 * FP) \div 4}

EmaStart ==
    {[engine |-> e, pc |-> "start", UPDATE_OPS |-> ops, update_ops |-> {},
      teacher_deps |-> {}, decay |-> d, live |-> FP, shadow |-> FP,
      updates |-> 0, ran |-> {}, writes |-> 0, seen |-> 0] :
        e \in {"ict", "mean_teacher"}, ops \in {{}, {"other_update"}},
        d \in EmaDecays}

\* build_ema_getter: creates the moving average of the trainable variables
\* and registers its update op in UPDATE_OPS
build_ema_getter(e) ==
    [e EXCEPT !.pc = "getter", !.UPDATE_OPS = @ \cup {"ema_update"}]

\* (mutant) the teacher is built outside tf.control_dependencies
TeacherDeps_Outside(e) == {}

\* with tf.control_dependencies(update_ops): the teacher's forward pass
TeacherDeps(e) == e.update_ops

BuildEmaGetter ==
    /\ ema.pc = "start"
    /\ ema' = build_ema_getter(ema)
    /\ UNCHANGED <<global_step, call, result>>

\* update_ops = tf.compat.v1.get_collection(UPDATE_OPS)
GetUpdateOps ==
    /\ ema.pc = "getter"
    /\ ema' = [ema EXCEPT !.pc = "collected", !.update_ops = ema.UPDATE_OPS]
    /\ UNCHANGED <<global_step, call, result>>

\* featurizer_fn under the EMA getter and layer(hidden), inside the block
BuildTeacher ==
    /\ ema.pc = "collected"
    /\ ema' = [ema EXCEPT !.pc = "built", !.teacher_deps = TeacherDeps(ema)]
    /\ UNCHANGED <<global_step, call, result>>

\* the ops of the graph that write the shadow parameters
ShadowWriters(e) == e.UPDATE_OPS \cap {"ema_update"}

\* the update op runs: shadow = decay * shadow + (1 - decay) * live
RunEmaUpdate ==
    /\ ema.pc = "built"
    /\ "ema_update" \notin ema.ran
    /\ ema' = [ema EXCEPT
                 !.shadow = Mul(ema.decay, ema.shadow) + Mul(FP - ema.decay, ema.live),
                 !.updates = @ + 1,
                 !.writes = @ + 1,
                 !.ran = @ \cup {"ema_update"}]
    /\ UNCHANGED <<global_step, call, result>>

\* another update op of the collection runs
RunOtherUpdate ==
    /\ ema.pc = "built"
    /\ "other_update" \in ema.UPDATE_OPS
    /\ "other_update" \notin ema.ran
    /\ ema' = [ema EXCEPT !.ran = @ \cup {"other_update"}]
    /\ UNCHANGED <<global_step, call, result>>

\* the teacher's forward pass runs once its control dependencies have run,
\* and reads the shadow parameters
RunTeacher ==
    /\ ema.pc = "built"
    /\ "teacher" \notin ema.ran
    /\ ema.teacher_deps \subseteq ema.ran
    /\ ema' = [ema EXCEPT !.seen = ema.updates, !.ran = @ \cup {"teacher"}]
    /\ UNCHANGED <<global_step, call, result>>

\* the optimizer applies the gradients of the loss, which needs the teacher
RunApplyGradients ==
    /\ ema.pc = "built"
    /\ "teacher" \in ema.ran
    /\ "apply_gradients" \notin ema.ran
    /\ ema' = [ema EXCEPT !.live = @ + FP \div 2,
                          !.ran = @ \cup {"apply_gradients"}]
    /\ UNCHANGED <<global_step, call, result>>

\* the training step ends; the next one starts
EndStep ==
    /\ ema.pc = "built"
    /\ "apply_gradients" \in ema.ran
    /\ global_step < TotalSteps
    /\ global_step' = global_step + 1
    /\ ema' = [ema EXCEPT !.ran = {}, !.writes = 0]
    /\ UNCHANGED <<call, result>>

InitEma ==
    /\ global_step = 0
    /\ call = NoCall
    /\ result = NoResult
    /\ ema \in EmaStart

NextEma ==
    \/ BuildEmaGetter \/ GetUpdateOps \/ BuildTeacher
    \/ RunEmaUpdate \/ RunOtherUpdate \/ RunTeacher \/ RunApplyGradients
    \/ EndStep

SpecEma == InitEma /\ [][NextEma]_vars

\* the calls on tensors, one at a time
NextTensors ==
    \/ CrfLogLikelihoodCall
    \/ CrossEntropyCall
    \/ ConsistencyLossCall
    \/ ClassReweightingCall
    \/ MultiChoiceLogitsCall
    \/ CrfProbsCall
    \/ MultilabelWeightCall
    \/ MultilabelCall
    \/ Return

SpecTensors == Init /\ [][NextTensors]_vars

\* ------------------------------------------------------------------ claims
SslHeads == ConsistencyHeads \cup {"pseudo_label"}

\* the engine's call had targets
WithTargets == call.head \in SslHeads /\ call.targets # NoTargets

\* a labeled row TSA removes: its confidence exceeds the step's threshold
Confident(row) == Exp(row.ll) > tsa_threshold(call.step, call.n_targets)

\* the rows of a sequence of rows, by the index they had in the batch
Ids(rows) == {rows[i].id : i \in 1..Len(rows)}

\* TSA is configured and removes every labeled row
AllFiltered ==
    /\ call.head \in ConsistencyHeads
    /\ call.targets # NoTargets
    /\ call.tsa_method # "None"
    /\ \A i \in 1..call.targets : Confident(call.batch[i])

Retained(u) == u.id \in Ids(result.logits)

\* the probability pseudo_label compares with pseudo_thresh
SeqProb(k) == u_seq_probs(call, UnlabeledRows(call))[k]

PseudoCase == call.head = "pseudo_label" /\ call.targets # NoTargets

\* C2 as stated: an unlabeled row is appended exactly when its probability is
\* strictly greater than pseudo_thresh, so with pseudo_thresh = 1.0 no row is
\* retained and with pseudo_thresh = 0.0 every row is retained
C2_AllRetainedAtZero ==
    PseudoCase =>
        /\ \A k \in 1..Len(UnlabeledRows(call)) :
              Retained(UnlabeledRows(call)[k]) <=> SeqProb(k) > call.pseudo_thresh
        /\ call.pseudo_thresh = FP =>
              \A k \in 1..Len(UnlabeledRows(call)) : ~Retained(UnlabeledRows(call)[k])
        /\ call.pseudo_thresh = 0 =>
              \A k \in 1..Len(UnlabeledRows(call)) : Retained(UnlabeledRows(call)[k])

\* C2 amended: an unlabeled row is appended exactly when its probability is
\* strictly greater than pseudo_thresh; with pseudo_thresh = 1.0 no row is
\* retained; with pseudo_thresh = 0.0 the rows retained are those whose
\* probability is not 0.0: all of them without a CRF, and with a CRF all but
\* those whose exp(log-likelihood) underflows to 0.0
C2_StrictThreshold ==
    PseudoCase =>
        /\ \A k \in 1..Len(UnlabeledRows(call)) :
              Retained(UnlabeledRows(call)[k]) <=> SeqProb(k) > call.pseudo_thresh
        /\ call.pseudo_thresh = FP =>
              \A k \in 1..Len(UnlabeledRows(call)) : ~Retained(UnlabeledRows(call)[k])
        /\ call.pseudo_thresh = 0 =>
              \A k \in 1..Len(UnlabeledRows(call)) :
                 Retained(UnlabeledRows(call)[k]) <=>
                    (~call.use_crf \/ Exp(UnlabeledRows(call)[k].ll) # 0)

C2_Witness ==
    /\ PseudoCase
    /\ call.use_crf
    /\ call.pseudo_thresh = 0
    /\ Len(UnlabeledRows(call)) = 2
    /\ Retained(UnlabeledRows(call)[2])
    /\ ~Retained(UnlabeledRows(call)[1])

\* C4 as stated: each of vat, pseudo_label, ict and mean_teacher, with
\* tsa_method set and targets supplied, hands the supervised loss only the
\* labeled rows that the TSA filter lets through
C4_AllFourFilter ==
    (WithTargets /\ call.tsa_method # "None" /\ result.err = "none") =>
        \A i \in 1..call.targets :
            call.batch[i].id \in Ids(result.supIn) <=> ~Confident(call.batch[i])

\* C4 amended: vat, ict and mean_teacher, with tsa_method set and targets
\* supplied, hand the supervised loss exactly the labeled rows that the TSA
\* filter lets through; pseudo_label applies no TSA filter and hands it every
\* labeled row
C4_ThreeFilter ==
    (WithTargets /\ call.tsa_method # "None" /\ result.err = "none") =>
        \A i \in 1..call.targets :
            call.batch[i].id \in Ids(result.supIn) <=>
                (call.head = "pseudo_label" \/ ~Confident(call.batch[i]))

C4_Witness ==
    /\ WithTargets
    /\ call.head = "mean_teacher"
    /\ call.tsa_method # "None"
    /\ result.err = "none"
    /\ call.targets = 2
    /\ Confident(call.batch[1])
    /\ ~Confident(call.batch[2])
    /\ Ids(result.supIn) = {2}

\* C5: in vat, ict and mean_teacher the unsupervised term of the returned
\* loss is multiplied by max(0, ssl_loss_coef * warmup(global_step /
\* total_num_steps)): it is 0 at progress 0 and never negative
C5_Annealed ==
    (call.head \in ConsistencyHeads /\ call.targets # NoTargets
        /\ result.err = "none") =>
        /\ result.unsupTerm = Mul(loss_coef(call), call.unsup)
        /\ call.step = 0 => result.unsupTerm = 0
        /\ result.unsupTerm >= 0

LinearHeads ==
    {"classifier", "multi_choice_question", "multi_classifier", "regressor",
     "ordinal_regressor"}
SequenceHeads == {"sequence_labeler"} \cup SslHeads

RegressorCase == call.head = "regressor"
\* L1 or L2 in either case
ValidKind == call.regression_loss \in {"L1", "l1", "L2", "l2"}

\* C6 as stated: every call to regressor whose regression_loss is neither L1
\* nor L2 (case-insensitively) fails with a FinetuneError naming the value,
\* whether or not targets are supplied, and returns no result
C6_AlwaysFails ==
    (RegressorCase /\ ~ValidKind) =>
        /\ result.err = "FinetuneError"
        /\ result.msg = call.regression_loss
        /\ result.logits = <<>>

\* C6 amended: a call to regressor fails with a FinetuneError naming the
\* value, and returns nothing, exactly when targets are supplied and
\* regression_loss is neither L1 nor L2 (case-insensitively); with targets
\* None the value is not looked at and the call returns logits and no loss
C6_FailsWithTargets ==
    RegressorCase =>
        IF call.targets # NoTargets /\ ~ValidKind
        THEN /\ result.err = "FinetuneError"
             /\ result.msg = call.regression_loss
             /\ result.logits = <<>>
        ELSE /\ result.err = "none"
             /\ result.logits = call.batch
             /\ call.targets = NoTargets => result.losses = NoneLoss

C6_Witness ==
    /\ RegressorCase
    /\ call.regression_loss = "huber"
    /\ call.targets # NoTargets
    /\ result.err = "FinetuneError"
    /\ result.msg = "huber"

\* C8 as stated: for every head a call with targets None returns logits for
\* every row of the batch and losses None
C8_LossNone ==
    (call.head \in LinearHeads \cup SequenceHeads /\ call.targets = NoTargets) =>
        /\ result.err = "none"
        /\ result.logits = call.batch
        /\ result.losses = NoneLoss

\* C8 amended: for every head a call with targets None returns logits for
\* every row of the batch; losses is None for classifier,
\* multi_choice_question, multi_classifier, regressor and ordinal_regressor,
\* and the number 0.0 for sequence_labeler, vat, pseudo_label, ict and
\* mean_teacher
C8_LogitsOnly ==
    (call.head \in LinearHeads \cup SequenceHeads /\ call.targets = NoTargets) =>
        /\ result.err = "none"
        /\ result.logits = call.batch
        /\ call.head \in LinearHeads => result.losses = NoneLoss
        /\ call.head \in SequenceHeads => result.losses = Scalar(0)

C8_Witness ==
    /\ call.head = "mean_teacher"
    /\ call.targets = NoTargets
    /\ Len(call.batch) = 3
    /\ result.logits = call.batch
    /\ result.losses = Scalar(0)

WeightedCase ==
    /\ call.head = "classifier"
    /\ call.targets # NoTargets
    /\ call.class_weights # NoWeights

EndToEndCase ==
    /\ call.head = "sequence_labeler"
    /\ call.targets # NoTargets
    /\ ~call.multilabel
    /\ call.use_crf
    /\ call.lengths_given
    /\ Len(call.batch) = 2
    /\ call.seq = 5 /\ call.embed = 8 /\ call.n_targets = 3
    /\ Lens(call.batch) = <<5, 3>>

\* C10 as stated: the end-to-end call returns logits of shape (2, 5, 3), a
\* loss that is one non-negative scalar, and a transition matrix of shape
\* (3, 3)
C10_ScalarLoss ==
    EndToEndCase =>
        /\ result.logits_shape = <<2, 5, 3>>
        /\ result.losses.kind = "scalar"
        /\ result.losses.v >= 0
        /\ result.transition_matrix = <<3, 3>>

\* C10 amended: the end-to-end call returns logits of shape (2, 5, 3), a loss
\* of shape (2,), one non-negative negative log-likelihood per sequence, and
\* a transition matrix of shape (3, 3)
C10_PerSequenceLoss ==
    EndToEndCase =>
        /\ result.logits_shape = <<2, 5, 3>>
        /\ result.losses.kind = "vector"
        /\ Len(result.losses.v) = 2
        /\ \A i \in 1..2 : result.losses.v[i] >= 0
        /\ result.transition_matrix = <<3, 3>>
        /\ result.sequence_length = <<5, 3>>

C10_Witness ==
    /\ EndToEndCase
    /\ result.losses.kind = "vector"
    /\ result.losses.v[1] > 0
    /\ result.logits_shape = <<2, 5, 3>>

\* zip_list_to_dict is called with labels whose number differs from the
\* number of documents
MismatchCase ==
    /\ call.head = "zip_list_to_dict"
    /\ ~call.context_given
    /\ call.Y_given
    /\ Len(call.X) # Len(call.Y)

\* C7: zip_list_to_dict called with labels Y whose number of entries differs
\* from the number of documents raises a FinetuneError before any sample is
\* produced, and never truncates X or Y to the shorter length
C7_RaisesFinetuneError ==
    MismatchCase => result.err = "FinetuneError" /\ result.out = <<>>

\* C3: within one training step the EMA shadow parameters have exactly one
\* writer, the update ops the teacher's forward pass depends on include that
\* writer, and the teacher reads the shadow only after the step's update
C3_TeacherSeesUpdate ==
    /\ ema.writes <= 1
    /\ ema.pc = "built" =>
          /\ Cardinality(ShadowWriters(ema)) = 1
          /\ ShadowWriters(ema) \subseteq ema.teacher_deps
    /\ "teacher" \in ema.ran =>
          /\ ema.writes = 1
          /\ ema.seen = global_step + 1
          /\ ema.seen = ema.updates

C3_Witness ==
    /\ ema.engine = "ict"
    /\ "other_update" \in ema.ran
    /\ "teacher" \in ema.ran
    /\ global_step = 2
    /\ ema.seen = 3

\* the tag paths over the scored tokens other than the target path
OtherPaths ==
    {p \in [1..call.length -> 1..call.n_tags] :
        \E t \in 1..call.length : p[t] # call.tags[t]}

\* C11: for every logits, transition matrix, target path and length the CRF
\* loss (log-partition minus the score of the target path over the first
\* length tokens) is >= 0, and it is 0 only when no path other than the
\* target path carries probability mass
C11_NllNonNegative ==
    call.head = "crf_log_likelihood" =>
        /\ result.losses.num >= result.losses.den
        /\ result.losses.num = result.losses.den =>
              \A p \in OtherPaths : PathPotential(call, p, call.length) = 0

C11_Witness ==
    /\ call.head = "crf_log_likelihood"
    /\ call.length = 2
    /\ result.losses.num = result.losses.den
    /\ result.losses.den = 4
    /\ \E t \in 1..2 : \E y \in 1..2 : y # call.tags[t] /\ call.unary[t][y] > 0

\* C12: without a CRF the loss of sequence_labeler is unchanged when the
\* logits and targets at the positions >= L of a sequence of length L
\* (1 <= L <= sequence_length) are replaced by any other values
C12_PaddingInvariant ==
    call.head = "sparse_softmax_cross_entropy" =>
        result.losses = FallbackLoss(Repadded(call))

C12_Witness ==
    /\ call.head = "sparse_softmax_cross_entropy"
    /\ Len(call.lengths) = 2
    /\ call.lengths[1] = 1 /\ call.lengths[2] = 2
    /\ call.ce[1][2] # call.pad[1][2]
    /\ call.ce[2][3] # call.pad[2][3]
    /\ result.losses.v > 0

\* the student and the teacher have the same parameters
Identical == call.head = "u_loss" /\ call.live = call.ema

\* ict mixes every row with a row of the same embedding
TrivialMix ==
    \A i \in 1..Len(call.embed) : call.embed[call.shuffle[i]] = call.embed[i]

\* C13 as stated: with identical live and EMA parameters and dropout off the
\* consistency loss of mean_teacher and of ict is exactly 0 for every batch
C13_ZeroWhenIdentical ==
    Identical => result.losses.v = 0

\* C13 amended: with identical live and EMA parameters and dropout off the
\* consistency loss of mean_teacher is 0 for every batch; that of ict is 0
\* when every row is mixed with a row of the same embedding
C13_ZeroWithoutMixing ==
    Identical =>
        /\ call.engine = "mean_teacher" => result.losses.v = 0
        /\ call.engine = "ict" /\ TrivialMix => result.losses.v = 0

C13_Witness ==
    /\ Identical
    /\ call.engine = "mean_teacher"
    /\ call.embed = <<FP, 0 - FP>>
    /\ call.live = 2 * FP
    /\ result.losses.v = 0

\* the heads that return predict_params
BundleHeads == SequenceHeads \cup {"association"}

\* C14: every head that returns predict_params (sequence_labeler, vat,
\* pseudo_label, ict, mean_teacher, association) returns a bundle with both
\* transition_matrix and sequence_length, and sequence_length has one entry
\* per row of the returned logits
C14_BundleComplete ==
    (call.head \in BundleHeads /\ result.err = "none") =>
        /\ {"transition_matrix", "sequence_length"} \subseteq result.predict_params
        /\ Len(result.sequence_length) = Len(result.logits)

\* a consistency engine called with targets has returned
Partitioned ==
    /\ call.head \in ConsistencyHeads
    /\ call.targets # NoTargets
    /\ result.err = "none"

\* the supervised loss reads labeled rows only, and without TSA the returned
\* logits and sequence_length are the n labeled rows in their order
LabeledFirst ==
    /\ Ids(result.supIn) \subseteq 1..call.targets
    /\ call.tsa_method = "None" =>
          /\ result.supIn = LabeledRows(call)
          /\ result.logits = LabeledRows(call)
          /\ result.sequence_length = Lens(LabeledRows(call))

C16_NormPreserved ==
    call.head = "class_reweighting" =>
        /\ result.logits = call.logits
        /\ result.grad.kind = "scaled"
        /\ result.grad.new_g =
              [i \in 1..Len(call.g) |-> Mul(call.g[i], call.class_weights[i])]
        /\ result.grad.ratio2.num > 0 /\ result.grad.ratio2.den > 0
        /\ SquaredNorm(result.grad.new_g) * result.grad.ratio2.num
              = SquaredNorm(call.g) * result.grad.ratio2.den

\* C17: multi_choice_question maps hidden of shape (batch, n_choices, embed)
\* to logits of shape (batch, n_choices) where logits[b][c] is the scalar
\* head applied to hidden[b][c] alone: flattening, scoring and unflattening
\* keep every score at its (example, choice) position
C17_ScoresInPlace ==
    call.head = "clf_out" =>
        /\ Len(result.logits) = Len(call.hidden)
        /\ \A b \in 1..Len(call.hidden) :
              /\ Len(result.logits[b]) = call.n_targets
              /\ \A k \in 1..call.n_targets :
                    result.logits[b][k] =
                        Mul(call.hidden[b][k], call.w) + call.b

C17_Witness ==
    /\ call.head = "clf_out"
    /\ Len(call.hidden) = 3
    /\ call.n_targets = 2
    /\ call.hidden = <<<<0, FP>>, <<FP, FP>>, <<0, 0>>>>
    /\ call.w = 2 * FP /\ call.b = FP
    /\ result.logits = <<<<FP, 3 * FP>>, <<3 * FP, 3 * FP>>, <<FP, FP>>>>

\* regressor called with targets; the error of each output
Regressed == RegressorCase /\ call.targets # NoTargets
Errors == [i \in 1..Len(call.batch) |-> call.batch[i].ll * FP]
AbsErrors == [i \in 1..Len(Errors) |-> Max(Errors[i], 0 - Errors[i])]
HalfSquares ==
    SumSeq([i \in 1..Len(Errors) |-> Mul(Errors[i], Errors[i])]) \div 2

\* C18 as stated: with targets, regressor returns for regression_loss L2 the
\* sum over all outputs of half the squared error, and for L1 the mean
\* absolute error over all outputs
C18_MeanAbsoluteError ==
    Regressed =>
        /\ call.regression_loss \in {"L2", "l2"} =>
              result.losses = Scalar(HalfSquares)
        /\ call.regression_loss \in {"L1", "l1"} =>
              result.losses = Scalar(SumSeq(AbsErrors) \div Len(AbsErrors))

\* C18 amended: for L2 the sum over all outputs of half the squared error (a
\* scalar); for L1 the absolute error of each output, not reduced
C18_AbsoluteErrors ==
    Regressed =>
        /\ call.regression_loss \in {"L2", "l2"} =>
              result.losses = Scalar(HalfSquares)
        /\ call.regression_loss \in {"L1", "l1"} =>
              result.losses = Vector(AbsErrors)

C18_Witness ==
    /\ Regressed
    /\ call.regression_loss = "L1"
    /\ Len(call.batch) = 2
    /\ result.losses = Vector(<<FP, 12 * FP>>)

\* C19: ordinal_regressor returns the sigmoid of the thresholds as logits
\* and losses None when targets are None, and the raw logits with one binary
\* cross-entropy per threshold when targets are supplied; the presence of
\* targets, not the train flag, decides
C19_ModeByTargets ==
    call.head = "ordinal_regressor" =>
        /\ result.logits = call.batch
        /\ IF call.targets = NoTargets
           THEN result.sigmoid /\ result.losses = NoneLoss
           ELSE /\ ~result.sigmoid
                /\ result.losses.kind = "matrix"
                /\ Len(result.losses.v) = Len(call.batch)
                /\ \A i \in 1..Len(call.batch) :
                      /\ Len(result.losses.v[i]) = call.n_targets
                      /\ \A k \in 1..call.n_targets :
                            result.losses.v[i][k] = (0 - call.batch[i].ll) * FP

C19_Witness ==
    /\ call.head = "ordinal_regressor"
    /\ ~call.train
    /\ call.targets = 2
    /\ ~result.sigmoid
    /\ result.losses.kind = "matrix"

\* association called with targets
Associated == call.head = "association" /\ call.targets # NoTargets

\* the token pairs (row, i, j) inside the length of their row
ValidPairs ==
    {p \in (1..Len(call.batch)) \X (1..call.max_length) \X (1..call.max_length) :
        p[2] <= call.batch[p[1]].len /\ p[3] <= call.batch[p[1]].len}

RECURSIVE PairSum(_)
\* the pair losses of a set of pairs, added up
PairSum(S) ==
    IF S = {} THEN 0
    ELSE LET p == CHOOSE q \in S : TRUE
         IN  call.pce[p[1]][p[2]][p[3]] + PairSum(S \ {p})

\* C20: in association the token pair (i, j) of row b contributes to the
\* association loss if and only if i < lengths[b] and j < lengths[b], and
\* the returned loss is the CRF negative log-likelihood plus
\* config.assocation_loss_weight times the association loss
C20_MaskedPairs ==
    Associated =>
        /\ \A b \in 1..Len(call.batch) : \A i, j \in 1..call.max_length :
              PairMask(call)[b][i][j] # 0 <=> <<b, i, j>> \in ValidPairs
        /\ association_loss(call).v = PairSum(ValidPairs) \div Cardinality(ValidPairs)
        /\ result.losses =
              Vector([b \in 1..Len(call.batch) |->
                        (0 - call.batch[b].ll) * FP
                          + Mul(call.assocation_loss_weight,
                                PairSum(ValidPairs) \div Cardinality(ValidPairs))])

C20_Witness ==
    /\ Associated
    /\ Len(call.batch) = 2
    /\ call.batch[1].len = 1 /\ call.batch[2].len = 2
    /\ call.pce[1] = <<<<FP, FP>>, <<FP, FP>>>>
    /\ call.pce[2] = <<<<0, FP>>, <<0, 0>>>>
    /\ call.assocation_loss_weight = FP \div 2
    /\ call.batch[1].ll = -1 /\ call.batch[2].ll = 0
    /\ result.losses = Vector(<<FP + 20, 20>>)

\* C21: for every lengths vector with 0 <= length <= sequence_length, rows
\* of length 0 included, the weighted cross-entropy loss that
\* sequence_labeler, vat, pseudo_label, ict and mean_teacher compute without
\* a CRF is a finite number: normalising the mask by the length divides by
\* no zero
C21_FiniteLoss ==
    call.head = "sparse_softmax_cross_entropy" =>
        /\ result.losses.kind = "scalar"
        /\ result.losses.v >= 0

\* C22: with targets supplied, vat, pseudo_label, ict and mean_teacher build
\* their graph without raising for every combination of train and use_crf:
\* every name that chooses the CRF device is bound where it is read
C22_NeverRaises ==
    WithTargets => result.err = "none"

\* C23: in vat with vat_k = K the perturbation is initialised once, of norm
\* vat_e, then replaced exactly K times by vat_e times the normalised
\* gradient of the KL divergence at the current perturbation, each
\* replacement a constant for later gradients; the adversarial loss added to
\* the returned loss is computed from the perturbation after the K-th
\* replacement, and the reference distribution is computed once, from the
\* unperturbed logits
C23_PowerIteration ==
    call.head = "vat_adv" =>
        /\ result.inits <= 1 /\ result.refs <= 1
        /\ result.replaced <= call.vat_k
        /\ result.replaced > 0 => result.constant
        /\ result.adv_vector \in {0, call.vat_e, 0 - call.vat_e}
        /\ result.refs = 1 => result.probs = Mul(call.w, call.hidden)
        /\ result.pc = "done" =>
              /\ result.inits = 1 /\ result.refs = 1
              /\ result.replaced = call.vat_k
              /\ result.loss_from = call.vat_k
              /\ result.adv_loss =
                    kl_div(Mul(call.w, call.hidden),
                           Mul(call.w, call.hidden + result.adv_vector))

C23_Witness ==
    /\ call.head = "vat_adv"
    /\ call.vat_k = 2
    /\ call.uniform > 0
    /\ result.pc = "done"
    /\ result.replaced = 2
    /\ result.adv_loss > 0

\* the unlabeled rows whose probability is above the threshold, by position
\* among the unlabeled rows
Kept == {k \in 1..Len(UnlabeledRows(call)) : SeqProb(k) > call.pseudo_thresh}

\* C24: in pseudo_label with n labeled and m unlabeled rows the logits,
\* lengths and targets handed to the loss have the same n + r rows, r the
\* number of retained unlabeled rows; the first n are the labeled rows in
\* order, every later row of the three tensors belongs to one and the same
\* retained unlabeled example, and with m = 0 the loss is that of the
\* labeled rows alone
C24_AlignedRows ==
    PseudoCase =>
        LET n == call.targets
            t == result.lossIn
        IN  /\ Len(t.logits) = n + Cardinality(Kept)
            /\ Len(t.lengths) = Len(t.logits)
            /\ Len(t.targets) = Len(t.logits)
            /\ \A i \in 1..n : t.logits[i] = i
            /\ \A i \in 1..Len(t.logits) :
                  /\ t.lengths[i] = t.logits[i]
                  /\ t.targets[i] = t.logits[i]
                  /\ i > n => (t.logits[i] - n) \in Kept
            /\ \A i, j \in 1..Len(t.logits) : i < j => t.logits[i] < t.logits[j]
            /\ Len(result.logits) = Len(t.logits)
            /\ Len(call.batch) = n =>
                  result.losses = SupervisedLoss(call, LabeledRows(call))

C24_Witness ==
    /\ PseudoCase
    /\ Len(call.batch) = 3
    /\ call.targets = 1
    /\ result.lossIn.logits = <<1, 3>>
    /\ result.lossIn.targets = <<1, 3>>

\* C25: in vat with vat_top_k = K, crf_probs gives every row K + 1 entries,
\* all >= 0 and summing to 1 (the probabilities of the K best sequences and
\* the leftover), also for a row shorter than the padded length over which
\* the K best sequences are decoded
C25_Distribution ==
    call.head = "crf_probs" =>
        /\ Len(result.probs.num) = call.vat_top_k + 1
        /\ \A k \in 1..Len(result.probs.num) : result.probs.num[k] >= 0
        /\ SumSeq(result.probs.num) = result.probs.den

\* multi_classifier's class weights are given
MultilabelWeighted ==
    /\ call.head = "_apply_multilabel_class_weight"
    /\ call.class_weights # NoWeights

\* C26: for multi_classifier with class weights the per-(example, class)
\* weights after normalisation sum to batch_size * n_targets, not to
\* batch_size; the raw weight of an entry is the class weight where the
\* target is 1 and 1 where it is 0
C26_WeightsSumToEntries ==
    MultilabelWeighted =>
        LET w == result.weights
            B == Len(call.targets)
            n == Len(call.class_weights)
        IN  /\ SumSeq([i \in 1..B |-> SumSeq(w.num[i])]) = B * n * w.den
            /\ \A i \in 1..B : \A k \in 1..n :
                  w.num[i][k] =
                      (IF call.targets[i][k] = 1 THEN call.class_weights[k]
                       ELSE FP) * B * n
            /\ \A i \in 1..B : \A k \in 1..n :
                  result.losses.v[i][k] =
                      (w.num[i][k] * call.losses[i][k]) \div w.den

C26_Witness ==
    /\ MultilabelWeighted
    /\ Len(call.targets) = 2
    /\ call.class_weights = <<FP \div 2, 2 * FP, FP>>
    /\ call.targets = <<<<1, 0, 0>>, <<0, 1, 1>>>>
    /\ result.weights.den = 13 * (FP \div 2)
    /\ result.weights.num[2][2] = 12 * FP

\* the number of characters of the pages before page i
CharsBefore(X, i) == SumSeq([j \in 1..(i - 1) |-> Len(X[j])])

\* the number of chunks of the pages before page i
ChunksBefore(X, i, n) ==
    SumSeq([j \in 1..(i - 1) |-> Len(BaseChunks(X[j], n))])

\* C27: DocumentPipeline._text_to_ids yields the chunks of every page in
\* page order; each chunk of page i has every token_starts and token_ends
\* entry shifted by the summed lengths of the pages before it, its other
\* fields are unchanged, and token_starts and token_ends have equal length
C27_ShiftedChunks ==
    call.head = "_text_to_ids" =>
        LET X == call.X
            n == call.max_length
        IN  /\ result.err = "none"
            /\ Len(result.out) = ChunksBefore(X, Len(X) + 1, n)
            /\ \A i \in 1..Len(X) :
                 \A j \in 1..Len(BaseChunks(X[i], n)) :
                    LET chunk == BaseChunks(X[i], n)[j]
                        got == result.out[ChunksBefore(X, i, n) + j]
                    IN  /\ got.token_ids = chunk.token_ids
                        /\ DOMAIN got = DOMAIN chunk
                        /\ Len(got.token_starts) = Len(got.token_ends)
                        /\ Len(got.token_starts) = Len(chunk.token_starts)
                        /\ \A k \in 1..Len(got.token_starts) :
                              /\ got.token_starts[k] =
                                   chunk.token_starts[k] + CharsBefore(X, i)
                              /\ got.token_ends[k] =
                                   chunk.token_ends[k] + CharsBefore(X, i)

C27_Witness ==
    /\ call.head = "_text_to_ids"
    /\ call.X = <<<<"a", "b", "\n">>, <<"c", "\n">>, <<"a", "b", "\n">>>>
    /\ call.max_length = 2
    /\ Len(result.out) = 5
    /\ result.out[1].token_starts = <<0, 1>>
    /\ result.out[3].token_starts = <<3, 4>>
    /\ result.out[5].token_ends = <<8>>

\* the page offsets of a document are contiguous
ContiguousOffsets(d) ==
    /\ Len(d) > 0 => d[1].start = 0
    /\ \A i \in 2..Len(d) : d[i].start = d[i - 1].end + 1

\* C28: _single_convert_to_finetune succeeds exactly for the documents whose
\* page offsets are contiguous (the first page starts at 0, every later page
\* at the end of the page before plus 1); any other document fails with an
\* AssertionError; on success it returns one text per page, the page text
\* and a newline, in page order
C28_ContiguousPages ==
    call.head = "_single_convert_to_finetune" =>
        LET d == call.document
        IN  /\ (result.err = "none") <=> ContiguousOffsets(d)
            /\ ~ContiguousOffsets(d) => result.err = "AssertionError"
            /\ ContiguousOffsets(d) =>
                  /\ Len(result.out.texts) = Len(d)
                  /\ \A i \in 1..Len(d) :
                        result.out.texts[i] = d[i].text \o <<"\n">>

C28_Witness ==
    /\ call.head = "_single_convert_to_finetune"
    /\ Len(call.document) = 3
    /\ call.document[2].start = 3
    /\ call.document[3].start = 5
    /\ result.err = "none"
    /\ result.out.texts = <<<<"a", "b", "\n">>, <<"c", "\n">>, <<"c", "\n">>>>

\* the page texts of a document, each with its newline, and their tokens
PageTextsOf(d) == [i \in 1..Len(d) |-> d[i].text \o <<"\n">>]
TokensOf(d) == get_context(d)

\* item.text == raw_text[item.start:item.end]
InText(item, raw_text) ==
    /\ item.start + Len(item.text) = Min(item.end, Len(raw_text))
    /\ \A k \in 1..Len(item.text) : item.text[k] = raw_text[item.start + k]

\* zip_list_to_dict is called without context, on documents with contiguous
\* pages, with one label list per document when Y is supplied
ZipCase ==
    /\ call.head = "zip_list_to_dict"
    /\ ~call.context_given
    /\ call.Y_given => Len(call.Y) = Len(call.X)
    /\ \A i \in 1..Len(call.X) : ContiguousOffsets(call.X[i])

\* some label, or some context token when default_context is set, is not
\* the text at its offsets
Misaligned ==
    \E i \in 1..Len(call.X) :
        LET raw_text == Join(PageTextsOf(call.X[i]))
        IN  \/ /\ call.Y_given
               /\ \E k \in 1..Len(call.Y[i]) : ~InText(call.Y[i][k], raw_text)
            \/ /\ call.default_context
               /\ \E k \in 1..Len(TokensOf(call.X[i])) :
                     ~InText(TokensOf(call.X[i])[k], raw_text)

\* C29: zip_list_to_dict returns one sample per document, in input order,
\* with raw_text the concatenation of the page texts, the key "Y" iff Y was
\* supplied and the key "context" iff config.default_context is set; when a
\* label of Y[i], or a context token with default_context, is not the text
\* at its offsets the call fails with an AssertionError and returns nothing
C29_SamplesAligned ==
    ZipCase =>
        /\ (result.err = "none") <=> ~Misaligned
        /\ Misaligned => result.err = "AssertionError" /\ result.out = <<>>
        /\ ~Misaligned =>
              /\ Len(result.out) = Len(call.X)
              /\ \A i \in 1..Len(call.X) :
                    LET sample == result.out[i]
                    IN  /\ sample.X = PageTextsOf(call.X[i])
                        /\ sample.raw_text = Join(sample.X)
                        /\ ("Y" \in DOMAIN sample) <=> call.Y_given
                        /\ ("context" \in DOMAIN sample)
                              <=> call.default_context
                        /\ call.Y_given => sample.Y = call.Y[i]
                        /\ call.default_context =>
                              sample.context = TokensOf(call.X[i])

C29_Witness ==
    /\ ZipCase
    /\ call.Y_given
    /\ call.default_context
    /\ Len(call.X) = 2
    /\ Len(call.X[1]) = 2
    /\ call.Y[1] # <<>>
    /\ result.err = "none"
    /\ Len(result.out) = 2
    /\ result.out[1].raw_text = <<"a", "b", "\n", "c", "\n">>
    /\ result.out[1].Y = call.Y[1]
    /\ Len(result.out[1].context) = 2

\* the call fails on a label that is not the text at its offsets
C29_WitnessMisaligned ==
    /\ ZipCase
    /\ Misaligned
    /\ result.err = "AssertionError"

\* the classes other than the pad class, in order
LossClasses(c) ==
    SelectRows([k \in 1..c.n_targets |-> k - 1],
               [k \in 1..c.n_targets |-> k - 1 # c.pad_id])

\* C30: in the multilabel path of sequence_labeler one 2x2 transition matrix
\* and one 2-way logit stack (pad-class logit, class-i logit) is built for
\* every class, the pad class included; with targets the loss is the sum of
\* the binary-chain losses of the classes other than the pad class, and
\* without targets it stays 0
C30_PadClassSkipped ==
    call.head = "multilabel" =>
        LET c == call
            classes == LossClasses(c)
            terms == [j \in 1..Len(classes) |-> ChainLoss(c, classes[j])]
        IN  /\ Len(result.transition_matrix) = c.n_targets
            /\ \A k \in 1..c.n_targets :
                  /\ result.transition_matrix[k] = c.trans[k]
                  /\ Len(result.transition_matrix[k]) = 2
                  /\ \A t \in 1..c.seq :
                        /\ result.logits[t][1][k] = c.unary[t][c.pad_id + 1]
                        /\ result.logits[t][2][k] = c.unary[t][k]
            /\ ~c.targets_given => result.losses = Scalar(0)
            /\ c.targets_given =>
                  /\ result.losses.kind = "log"
                  /\ result.losses.num =
                        ProdSeq([j \in 1..Len(terms) |-> terms[j].num])
                  /\ result.losses.den =
                        ProdSeq([j \in 1..Len(terms) |-> terms[j].den])
                  /\ result.losses.div = IF c.use_crf THEN 1 ELSE c.seq * c.seq

C30_Witness ==
    /\ call.head = "multilabel"
    /\ call.n_targets = 3
    /\ call.pad_id = 1
    /\ call.targets_given
    /\ call.use_crf
    /\ call.unary[1] = <<1, 2, 1>>
    /\ call.targets = <<<<1, 0, 0>>, <<0, 0, 1>>>>
    /\ call.trans = [k \in 1..3 |-> <<<<1, 1>>, <<1, 1>>>>]
    /\ Len(result.transition_matrix) = 3
    /\ result.losses.num = 81
    /\ result.losses.den = 4

\* without targets the loss is the float 0.0
C30_WitnessNoTargets ==
    /\ call.head = "multilabel"
    /\ ~call.targets_given
    /\ result.losses = Scalar(0)
    /\ Len(result.transition_matrix) = 3

====
